---- MODULE Spec2Model ----
(***************************************************************************)
(* Model of the multilingual Tacotron 2 trainer: the batching pipeline and  *)
(* the manifest reader (TextToSpeechCollate, TextToSpeechDataset and        *)
(* TextToSpeechDatasetCollection, dataset/dataset.py), the autoregressive   *)
(* decode loop and the masking of its outputs (Decoder and Tacotron,        *)
(* modules/tacotron2.py) and the gradient reversal layer                    *)
(* (modules/classifier.py).                                                 *)
(*                                                                          *)
(* Tensors are functions over 0-based index ranges, as in the source.  A    *)
(* spectrogram frame (one column of num_mels or num_fft/2+1 bins) is a      *)
(* single integer; the all-zero frame is 0.  The frequency axis is only     *)
(* kept in the recorded tensor shapes.  A value that may be None is a       *)
(* tuple of length 0 (None) or 1 (the value).                               *)
(***************************************************************************)
EXTENDS Integers, Sequences, FiniteSets, TLC

------------------------------------------------------------------------------
(* Bounds of the explored inputs *)

MaxBatch == 2
MaxUttLen == 2
MaxFrameCount == 2
MaxTargetFrames == 3
MaxOutputLength == 5
MaxStopFrames == 2
MaxLines == 2
MaxStrLen == 3
MaxGrad == 2
MaxRows == 5
MaxSplitSize == 3
MaxEpochs == 3
MaxGuidedSteps == 3
MaxUpdates == 5

(* Program constants, params/params.py *)
num_mels == 80
num_fft == 1102
stop_frames == 5

(* The logit Tacotron.forward forces on padded stop positions,
   modules/tacotron2.py *)
StopFill == 1000

------------------------------------------------------------------------------
(* Generic helpers: 0-based tensors, Python slices, optional values *)

Range0(n) == 0 .. (n - 1)

Size(t) == Cardinality(DOMAIN t)

Min2(a, b) == IF a < b THEN a ELSE b

Max2(a, b) == IF a > b THEN a ELSE b

None == << >>

Some(x) == << x >>

IsNone(x) == x = << >>

Zeros(n) == [j \in Range0(n) |-> 0]

(* The inclusive lower bound of the Python slice [k:] over a dimension of
   size n: a negative k counts from the end, and the bound is clipped. *)
SliceStart(k, n) == IF k < 0 THEN Max2(n + k, 0) ELSE Min2(k, n)

(* The exclusive upper bound of the Python slice [:k] over size n. *)
SliceStop(k, n) == IF k < 0 THEN Max2(n + k, 0) ELSE Min2(k, n)

(* row[:k] = vals *)
AssignPrefix(row, k, vals) ==
    [j \in DOMAIN row |-> IF j < SliceStop(k, Size(row)) THEN vals[j] ELSE row[j]]

(* row[k:] = v *)
AssignFrom(row, k, v) ==
    [j \in DOMAIN row |-> IF j >= SliceStart(k, Size(row)) THEN v ELSE row[j]]

Permutations0(n) ==
    {p \in [Range0(n) -> Range0(n)] : \A i, j \in Range0(n) : p[i] = p[j] => i = j}

(* Mutant of Gather: the index tensor is ignored. *)
GatherUnpermuted(t, idxs) == [i \in DOMAIN idxs |-> t[i]]

(* tensor[idxs] : gather along the first dimension *)
Gather(t, idxs) == [i \in DOMAIN idxs |-> t[idxs[i]]]

------------------------------------------------------------------------------
(* Inputs of the collator: the examples TextToSpeechDataset.__getitem__
   returns, (speaker, language, symbol ids, mel, linear or None). *)

(* Two voices: speaker v speaks language 1 - v.  The symbols and the frames
   of an example depend on its voice and on the position, so that a row of
   an output tensor tells which example and which position it was copied
   from.  Symbol ids 0..2 are PAD, EOS and UNK. *)
Voices == 0 .. 1

Symbol(v, j) == 3 + v + j

MelFrame(v, t) == 1000 * (v + 1) + (t + 1)

LinFrame(v, t) == 10000 + MelFrame(v, t)

GetItem(v, n, frames, predict_linear) ==
    [speaker  |-> v,
     language |-> 1 - v,
     u        |-> [j \in Range0(n) |-> Symbol(v, j)],
     a        |-> [t \in Range0(frames) |-> MelFrame(v, t)],
     b        |-> IF predict_linear
                  THEN Some([t \in Range0(frames) |-> LinFrame(v, t)])
                  ELSE None]

Examples(predict_linear) ==
    {GetItem(v, n, f, predict_linear) :
        v \in Voices, n \in 1 .. MaxUttLen, f \in 0 .. MaxFrameCount}

(* The two utterances of the documented scenario: 5 symbols with 20 frames,
   then 9 symbols with 12 frames. *)
ScenarioBatch(predict_linear) ==
    [k \in Range0(2) |->
        IF k = 0
        THEN GetItem(0, 5, 20, predict_linear)
        ELSE GetItem(1, 9, 12, predict_linear)]

Batches(predict_linear) ==
    UNION {[Range0(n) -> Examples(predict_linear)] : n \in 1 .. MaxBatch}
        \cup {ScenarioBatch(predict_linear)}

------------------------------------------------------------------------------
(* TextToSpeechDataset.__init__ and TextToSpeechDatasetCollection.__init__.
   A manifest is the list of its lines, a line is the record of the fields
   the constructor keeps apart: speaker, language, text and phonemes (the id
   and the three paths are copied and never read).  Names are strings, text
   and phonemes are sequences of characters.  Python lists are 0-based
   functions. *)

ListAppend(l, x) ==
    [i \in Range0(Size(l) + 1) |-> IF i < Size(l) THEN l[i] ELSE x]

(* x in l *)
InList(l, x) == \E i \in DOMAIN l : l[i] = x

(* l.index(x), for an x that is in l *)
ListIndex(l, x) ==
    CHOOSE i \in DOMAIN l : l[i] = x /\ \A j \in DOMAIN l : j < i => l[j] # x

(* utils.text.remove_punctuation *)
IsPunctuation(c) == c = ","

RemovePunctuation(str) == SelectSeq(str, LAMBDA c : ~IsPunctuation(c))

(* utils.text.to_lower *)
ToLower(str) == [k \in DOMAIN str |-> IF str[k] = "A" THEN "a" ELSE str[k]]

(* utils.text.remove_odd_whitespaces: a run of spaces becomes one space *)
RECURSIVE RemoveOddWhitespaces(_)
RemoveOddWhitespaces(str) ==
    IF Len(str) <= 1 THEN str
    ELSE IF str[1] = " " /\ str[2] = " "
         THEN RemoveOddWhitespaces(Tail(str))
         ELSE << str[1] >> \o RemoveOddWhitespaces(Tail(str))

(* utils.text.to_sequence: the id of every symbol in the vocabulary of raw
   characters or of phonemes; ids 0..2 are PAD, EOS and UNK. *)
SymbolId(c) ==
    CASE c = "a" -> 3 [] c = "A" -> 4 [] c = "," -> 5 [] c = " " -> 6 [] OTHER -> 2

ToSequence(str, use_phonemes) == [j \in Range0(Len(str)) |-> SymbolId(str[j + 1])]

(* Mutant of CleanText: the whitespace is collapsed before the punctuation
   is removed. *)
CleanTextCollapseFirst(item_text, hp_) ==
    LET t1 == IF hp_.remove_multiple_wspaces THEN RemoveOddWhitespaces(item_text) ELSE item_text
        t2 == IF ~hp_.use_punctuation THEN RemovePunctuation(t1) ELSE t1
    IN  IF ~hp_.case_sensitive THEN ToLower(t2) ELSE t2

(* The cleaning loop, for item_text and for item_phon *)
CleanText(item_text, hp_) ==
    LET t1 == IF ~hp_.use_punctuation THEN RemovePunctuation(item_text) ELSE item_text
        t2 == IF ~hp_.case_sensitive THEN ToLower(t1) ELSE t1
    IN  IF hp_.remove_multiple_wspaces THEN RemoveOddWhitespaces(t2) ELSE t2

CleanPhonemes(item_phon, hp_) ==
    LET p1 == IF ~hp_.use_punctuation THEN RemovePunctuation(item_phon) ELSE item_phon
    IN  IF hp_.remove_multiple_wspaces THEN RemoveOddWhitespaces(p1) ELSE p1

(* The reading loop: the lines whose language is in hp.languages, in the
   order read *)
RECURSIVE ReadItems(_, _, _, _)
ReadItems(lines, k, items, hp_) ==
    IF k >= Size(lines) THEN items
    ELSE ReadItems(lines, k + 1,
                   IF InList(hp_.languages, lines[k].language)
                   THEN ListAppend(items, lines[k]) ELSE items,
                   hp_)

(* Mutant of UniqueSpeakers: the speaker is added before the language test. *)
UniqueSpeakersOfAllLines(lines, hp_) == {lines[k].speaker : k \in DOMAIN lines}

(* The set unique_speakers after the reading loop *)
UniqueSpeakers(lines, hp_) ==
    {lines[k].speaker : k \in {i \in DOMAIN lines : InList(hp_.languages, lines[i].language)}}

(* list(unique_speakers): a list of the elements of the set, in the
   iteration order of the set, which for strings is any order *)
ListOfSet(S) ==
    {l \in [Range0(Cardinality(S)) -> S] : \A i, j \in DOMAIN l : l[i] = l[j] => i = j}

(* The object TextToSpeechDataset.__init__ leaves behind, for one outcome
   unique_speakers of list(set) *)
Dataset(lines, hp_, unique_speakers) ==
    LET read == ReadItems(lines, 0, << >>, hp_) IN
    [items |->
        [idx \in DOMAIN read |->
            [speaker  |-> ListIndex(unique_speakers, read[idx].speaker),
             language |-> ListIndex(hp_.languages, read[idx].language),
             text     |-> ToSequence(CleanText(read[idx].text, hp_), FALSE),
             phonemes |-> ToSequence(CleanPhonemes(read[idx].phonemes, hp_), TRUE)]],
     unique_speakers |-> unique_speakers]

(* TextToSpeechDataset.get_num_speakers *)
GetNumSpeakers(dataset) ==
    Cardinality({dataset.items[idx].speaker : idx \in DOMAIN dataset.items})

(* The outcomes of TextToSpeechDataset(meta_file, root_dir) on a file that
   exists *)
Datasets(file, hp_) ==
    {Dataset(file[1], hp_, unique_speakers) :
        unique_speakers \in ListOfSet(UniqueSpeakers(file[1], hp_))}

(* Mutant of Collection: without a validation manifest the collection is
   left with its training set alone. *)
CollectionPartial(fs_, test_file, hp_) ==
    IF IsNone(fs_.train)
    THEN {[raised |-> Some("IOError"), value |-> None, loaded |-> << >>]}
    ELSE IF IsNone(fs_.val)
    THEN {[raised |-> None,
           value |-> Some([train |-> t, dev |-> None, test |-> None]),
           loaded |-> << "train" >>] : t \in Datasets(fs_.train, hp_)}
    ELSE IF ~IsNone(test_file) /\ IsNone(fs_[test_file[1]])
    THEN {[raised |-> Some("IOError"), value |-> None, loaded |-> << "train", "val" >>]}
    ELSE {[raised |-> None,
           value  |-> Some([train |-> t, dev |-> d,
                            test |-> IF IsNone(test_file) THEN None ELSE Some(x)]),
           loaded |-> IF IsNone(test_file) THEN << "train", "val" >>
                      ELSE << "train", "val", test_file[1] >>] :
            t \in Datasets(fs_.train, hp_),
            d \in Datasets(fs_.val, hp_),
            x \in IF IsNone(test_file) THEN {None} ELSE Datasets(fs_[test_file[1]], hp_)}

(* TextToSpeechDatasetCollection.__init__ with the default names of the
   training and validation manifests: its outcomes, an exception and no
   object or the object with its attributes (test is absent when test_file
   is None), and the manifests read on the way. *)
Collection(fs_, test_file, hp_) ==
    IF IsNone(fs_.train)
    THEN {[raised |-> Some("IOError"), value |-> None, loaded |-> << >>]}
    ELSE IF IsNone(fs_.val)
    THEN {[raised |-> Some("IOError"), value |-> None, loaded |-> << "train" >>]}
    ELSE IF ~IsNone(test_file) /\ IsNone(fs_[test_file[1]])
    THEN {[raised |-> Some("IOError"), value |-> None, loaded |-> << "train", "val" >>]}
    ELSE {[raised |-> None,
           value  |-> Some([train |-> t, dev |-> d,
                            test |-> IF IsNone(test_file) THEN None ELSE Some(x)]),
           loaded |-> IF IsNone(test_file) THEN << "train", "val" >>
                      ELSE << "train", "val", test_file[1] >>] :
            t \in Datasets(fs_.train, hp_),
            d \in Datasets(fs_.val, hp_),
            x \in IF IsNone(test_file) THEN {None} ELSE Datasets(fs_[test_file[1]], hp_)}

(* The meta-file as text: a string of characters.  Newline ends a line of
   the file, Delimiter separates the fields of a record. *)
Newline == "\n"

Delimiter == "|"

(* for line in f: the file is cut after every newline; each line keeps its
   newline, and the last line has none when the file does not end in one. *)
RECURSIVE FileLines(_, _, _)
FileLines(content, line, lines) ==
    IF content = << >>
    THEN IF line = << >> THEN lines ELSE ListAppend(lines, line)
    ELSE IF Head(content) = Newline
    THEN FileLines(Tail(content), << >>, ListAppend(lines, Append(line, Newline)))
    ELSE FileLines(Tail(content), Append(line, Head(content)), lines)

(* str[:-1]: the string without its last character, whatever it is *)
DropLast(str) == SubSeq(str, 1, SliceStop(-1, Len(str)))

(* str.split(sep): the list of the pieces between the separators *)
RECURSIVE Split(_, _, _, _)
Split(str, sep, piece, pieces) ==
    IF str = << >> THEN ListAppend(pieces, piece)
    ELSE IF Head(str) = sep
    THEN Split(Tail(str), sep, << >>, ListAppend(pieces, piece))
    ELSE Split(Tail(str), sep, Append(piece, Head(str)), pieces)

(* The item dictionary of line k of the file: indexing a list of fewer than
   8 tokens raises IndexError; tokens beyond the eighth are not read.  The
   field line is not in the code: it records where the item came from. *)
LineItem(line_tokens, k) ==
    IF Size(line_tokens) < 8 THEN [raised |-> TRUE, item |-> None]
    ELSE [raised |-> FALSE,
          item |-> Some([id                 |-> line_tokens[0],
                         speaker            |-> line_tokens[1],
                         language           |-> line_tokens[2],
                         audio              |-> line_tokens[3],
                         spectrogram        |-> line_tokens[4],
                         linear_spectrogram |-> line_tokens[5],
                         text               |-> line_tokens[6],
                         phonemes           |-> line_tokens[7],
                         line               |-> k])]

(* What the lines of the file give, in the order read:
   line_tokens = line[:-1].split('|') and the item dictionary *)
LineItems(content) ==
    LET lines == FileLines(content, << >>, << >>)
    IN  [k \in DOMAIN lines |->
            LineItem(Split(DropLast(lines[k]), Delimiter, << >>, << >>), k)]

(* The outcomes of TextToSpeechDataset(meta_file, root_dir) on a file given
   as text: IndexError at the first line of fewer than 8 tokens; otherwise
   the dataset of the item dictionaries, with self.items as the reading
   loop left it kept as read. *)
DatasetsOfText(content, hp_) ==
    LET line_items == LineItems(content) IN
    IF \E k \in DOMAIN line_items : line_items[k].raised
    THEN {[raised |-> Some("IndexError"), value |-> None, read |-> << >>]}
    ELSE LET records == [k \in DOMAIN line_items |-> line_items[k].item[1]] IN
         {[raised |-> None, value |-> Some(dataset),
           read |-> ReadItems(records, 0, << >>, hp_)] :
             dataset \in Datasets(Some(records), hp_)}

(* sep.join(pieces) *)
RECURSIVE Join(_, _, _, _)
Join(pieces, sep, k, str) ==
    IF k >= Size(pieces) THEN str
    ELSE Join(pieces, sep, k + 1, (IF k = 0 THEN str ELSE Append(str, sep)) \o pieces[k])

(* A line of n fields, as create_meta_file prints a record, without its
   newline: field 2 is the language, the last field is given, every other
   field is one character. *)
TextLine(n, language, last) ==
    Join([k \in Range0(n) |-> IF k = 2 THEN language
                              ELSE IF k = n - 1 THEN last ELSE << "A" >>],
         Delimiter, 0, << >>)

(* The explored lines: 7, 8 or 9 fields; a language that is accepted or
   not; a last field that is empty, one or two characters *)
TextLines ==
    {TextLine(n, language, last) :
        n \in {7, 8, 9},
        language \in {<< "e", "n" >>, << "f", "r" >>},
        last \in {<< >>, << "A" >>, << "A", "a" >>}}

(* The explored meta-files: the last line ends in a newline or not *)
TextManifestFiles ==
    UNION {{IF ends THEN Append(Join(lines, Newline, 0, << >>), Newline)
            ELSE Join(lines, Newline, 0, << >>) :
               lines \in [Range0(n) -> TextLines], ends \in BOOLEAN} :
           n \in 0 .. MaxLines}

(* The manifests of the explored file systems *)
Speakers == {"anna", "bob"}

Languages == {"en", "de", "fr"}

Characters == {"A", ",", " "}

Strings == UNION {[1 .. n -> Characters] : n \in 0 .. MaxStrLen}

Line(speaker, language, text, phonemes) ==
    [speaker |-> speaker, language |-> language, text |-> text, phonemes |-> phonemes]

(* Manifests that differ in who speaks which language in which line *)
VoiceManifests ==
    UNION {[Range0(n) -> {Line(sp, la, << "A" >>, << "A" >>) : sp \in Speakers, la \in Languages}] :
            n \in 0 .. MaxLines}

(* Manifests of one line that differ in its text and in its phonemes *)
TextManifests ==
    {[k \in Range0(1) |-> Line("anna", "en", text, phonemes)] :
        text \in Strings, phonemes \in Strings}

(* The accepted-language lists of the explored configurations *)
LanguageLists ==
    {[k \in Range0(1) |-> "en"],
     [k \in Range0(2) |-> IF k = 0 THEN "en" ELSE "de"],
     [k \in Range0(2) |-> IF k = 0 THEN "de" ELSE "en"]}

------------------------------------------------------------------------------
(* TextToSpeechDataset.load_spectrogram.  An array is its shape
   [frequency bins, frames], where it came from and whether it went through
   audio.normalize_spectrogram. *)

(* The first dimensions of the arrays np.load and audio.spectrogram give:
   the two expected ones and their neighbours *)
FirstDimensions ==
    {num_mels - 1, num_mels, num_mels + 1,
     num_fft \div 2, (num_fft \div 2) + 1, (num_fft \div 2) + 2}

Arrays(origin) ==
    {[shape |-> << d, f >>, origin |-> origin, normalized |-> FALSE] :
        d \in FirstDimensions, f \in 0 .. MaxFrameCount}

(* utils.audio.normalize_spectrogram: element-wise, the shape is kept *)
NormalizeSpectrogram(spectrogram, is_mel) == [spectrogram EXCEPT !.normalized = TRUE]

(* Mutant of LoadSpectrogramResult: an array with too many bins is cut to
   the expected number instead of being refused. *)
LoadSpectrogramResultCut(spectrogram, normalize, is_mel) ==
    LET expected_dimension == IF is_mel THEN num_mels ELSE (num_fft \div 2) + 1
        cut == [spectrogram EXCEPT !.shape[1] = Min2(@, expected_dimension)]
    IN  IF cut.shape[1] # expected_dimension
        THEN [raised |-> Some("AssertionError"), value |-> None, normalize_called |-> FALSE]
        ELSE [raised |-> None,
              value |-> Some(IF normalize THEN NormalizeSpectrogram(cut, is_mel) ELSE cut),
              normalize_called |-> normalize]

(* load_spectrogram from the assertion on, for the array read or computed *)
LoadSpectrogramResult(spectrogram, normalize, is_mel) ==
    LET expected_dimension == IF is_mel THEN num_mels ELSE (num_fft \div 2) + 1 IN
    IF spectrogram.shape[1] # expected_dimension
    THEN [raised |-> Some("AssertionError"), value |-> None, normalize_called |-> FALSE]
    ELSE [raised |-> None,
          value |-> Some(IF normalize THEN NormalizeSpectrogram(spectrogram, is_mel)
                         ELSE spectrogram),
          normalize_called |-> normalize]

------------------------------------------------------------------------------
(* GradientReversalFunction and ReversalClassifier.forward.  Tensors are
   vectors of two integer components. *)

GradWidth == Range0(2)

Lambdas == {1, 2, 3}

(* tensor.clamp(lo, hi) of one component: min(max(x, lo), hi) *)
Clamp(x, lo, hi) == Min2(Max2(x, lo), hi)

(* Mutant of Backward: the gradient is scaled and negated before it is
   clamped. *)
BackwardClampLast(ctx, grad_output) ==
    << [k \in DOMAIN grad_output |-> Clamp(ctx.l * (0 - grad_output[k]), 0 - ctx.c, ctx.c)],
       None, None >>

(* GradientReversalFunction.backward: one gradient per input of forward *)
Backward(ctx, grad_output) ==
    LET clamped == [k \in DOMAIN grad_output |-> Clamp(grad_output[k], 0 - ctx.c, ctx.c)]
    IN  << [k \in DOMAIN clamped |-> ctx.l * (0 - clamped[k])], None, None >>

------------------------------------------------------------------------------
(* TextToSpeechCollate.__call__ *)

UtteranceLengths(batch) == [k \in DOMAIN batch |-> Size(batch[k].u)]

SpectrogramLengths(batch) == [k \in DOMAIN batch |-> Size(batch[k].a)]

(* The running maximum of the first loop *)
RECURSIVE RunningMax(_, _, _)
RunningMax(lens, k, m) ==
    IF k >= Size(lens) THEN m
    ELSE RunningMax(lens, k + 1, IF lens[k] > m THEN lens[k] ELSE m)

(* Mutant of CollateMaxFrames: the frame count of the last example read. *)
CollateMaxFramesLast(batch) == SpectrogramLengths(batch)[Size(batch) - 1]

(* max_frames of the collator *)
CollateMaxFrames(batch) == RunningMax(SpectrogramLengths(batch), 0, 0)

(* Mutants of TorchSortDescending: descending=True dropped; no sort at all. *)
TorchSortAscending(lengths) ==
    {p \in Permutations0(Size(lengths)) :
        \A i, j \in DOMAIN lengths : i < j => lengths[p[i]] <= lengths[p[j]]}

TorchSortNone(lengths) == {[i \in DOMAIN lengths |-> i]}

(* torch.sort(lengths, descending=True) without stable=True: the index
   tensors it may return.  The order of equal elements is not specified. *)
TorchSortDescending(lengths) ==
    {p \in Permutations0(Size(lengths)) :
        \A i, j \in DOMAIN lengths : i < j => lengths[p[i]] >= lengths[p[j]]}

(* Mutant of UtteranceRow: the row is allocated with ones. *)
UtteranceRowOnes(u, width) == AssignPrefix([j \in Range0(width) |-> 1], Size(u), u)

UtteranceRow(u, width) == AssignPrefix(Zeros(width), Size(u), u)

SpectrogramRow(a, max_frames) == AssignPrefix(Zeros(max_frames), Size(a), a)

(* Mutant of StopTokenRow: the slice starts one frame late. *)
StopTokenRowLate(a, max_frames) == AssignFrom(Zeros(max_frames), Size(a), 1)

StopTokenRow(a, max_frames) == AssignFrom(Zeros(max_frames), Size(a) - 1, 1)

CollateResult(batch, sorted_idxs, hp_) ==
    LET batch_size == Size(batch)
        sorted_utterance_lengths == Gather(UtteranceLengths(batch), sorted_idxs)
        max_frames_ == CollateMaxFrames(batch)
        width == sorted_utterance_lengths[0]
    IN  [sorted_utterance_lengths |-> sorted_utterance_lengths,
         utterances |->
            [i \in Range0(batch_size) |-> UtteranceRow(batch[sorted_idxs[i]].u, width)],
         mel_spectrograms |->
            [i \in Range0(batch_size) |-> SpectrogramRow(batch[sorted_idxs[i]].a, max_frames_)],
         lin_spectrograms |->
            IF hp_.predict_linear
            THEN Some([i \in Range0(batch_size) |->
                        SpectrogramRow(batch[sorted_idxs[i]].b[1], max_frames_)])
            ELSE None,
         stop_tokens |->
            [i \in Range0(batch_size) |-> StopTokenRow(batch[sorted_idxs[i]].a, max_frames_)],
         spectrogram_lengths |-> Gather(SpectrogramLengths(batch), sorted_idxs),
         speakers |->
            IF ~hp_.multi_speaker THEN None
            ELSE Some(Gather([k \in DOMAIN batch |-> batch[k].speaker], sorted_idxs)),
         languages |->
            IF ~hp_.multi_language THEN None
            ELSE Some(Gather([k \in DOMAIN batch |-> batch[k].language], sorted_idxs)),
         shape |->
            [utterances       |-> << batch_size, width >>,
             mel_spectrograms |-> << batch_size, num_mels, max_frames_ >>,
             lin_spectrograms |-> IF hp_.predict_linear
                                  THEN Some(<< batch_size, (num_fft \div 2) + 1, max_frames_ >>)
                                  ELSE None,
             stop_tokens      |-> << batch_size, max_frames_ >>]]

------------------------------------------------------------------------------
(* Decoder._decode, Decoder.forward, Decoder.inference *)

(* The values a stop logit takes in the model: below, at and above the
   logit whose sigmoid is 0.5. *)
StopLogits == {-1, 0, 1}

(* torch.sigmoid(x).ge(0.5): the sigmoid is increasing and is 0.5 at 0 *)
SigmoidGe05(x) == x >= 0

(* The batch sizes of a forward call; inference decodes a batch of one. *)
DecoderBatchSizes == {1, 2}

(* Teacher forcing ratios and the values torch.rand draws from [0, 1), in
   hundredths *)
Ratios == {0, 50, 100}

RandValues == {0, 25, 75}

(* The ratios Tacotron.forward is called with: its default 0.0 and the
   constant hp.teacher_forcing = 1.0 *)
ForwardRatios == {0, 100}

(* The ground-truth frame t of example b, and the frame and the attention
   weights the network predicts at step i for example b: the network is
   opaque, its outputs are named after the step that produced them. *)
TargetFrame(b, t) == 1000 * (b + 1) + (t + 1)

PredictedFrame(b, i) == 100 * (b + 1) + (i + 1)

PredictedWeights(b, i) == 10 * (b + 1) + (i + 1)

(* utils.lengths_to_mask(lengths, max_length=None): position j of row b is
   valid iff j < lengths[b]; the width is max_length, by default the
   largest length. *)
LengthsToMask(lengths, max_length) ==
    LET ml == IF IsNone(max_length)
              THEN RunningMax(lengths, 0, 0) ELSE max_length[1]
    IN  [b \in DOMAIN lengths |-> [j \in Range0(ml) |-> j < lengths[b]]]

(* Mutant of ForwardMask: the mask of inference, every position valid. *)
ForwardMaskAllValid(encoded_lenghts, ml) ==
    [b \in DOMAIN encoded_lenghts |-> [j \in Range0(ml) |-> TRUE]]

(* Decoder.forward: mask = lengths_to_mask(encoded_lenghts, max_length=ml) *)
ForwardMask(encoded_lenghts, ml) == LengthsToMask(encoded_lenghts, Some(ml))

(* Decoder.inference: mask = lengths_to_mask([encoded_input.size(1)]) *)
InferenceMask(ml) == LengthsToMask([b \in Range0(1) |-> ml], None)

(* The attention module, under the hypothesis that it gives no weight to a
   position its mask marks invalid: the weights of step i over the input
   positions of every example. *)
Attention(mask, i) ==
    [b \in DOMAIN mask |->
        [j \in DOMAIN mask[b] |-> IF mask[b][j] THEN PredictedWeights(b, i) ELSE 0]]

(* Mutant of DecoderInit: the cell state of the attention RNN is allocated
   with ones. *)
DecoderInitOnes(batch_size) ==
    [h_att |-> Zeros(batch_size), c_att |-> [b \in Range0(batch_size) |-> 1],
     h_gen |-> Zeros(batch_size), c_gen |-> Zeros(batch_size)]

(* _decoder_init: the hidden and cell state of both RNNs, one entry per
   example; the all-zero state vector is 0. *)
DecoderInit(batch_size) ==
    [h_att |-> Zeros(batch_size), c_att |-> Zeros(batch_size),
     h_gen |-> Zeros(batch_size), c_gen |-> Zeros(batch_size)]

(* The states the two LSTM cells give at step i: the cells are opaque, their
   outputs are named after the step and are never the zero vector. *)
LstmCells(batch_size, i) ==
    [h_att |-> [b \in Range0(batch_size) |-> 4 * i + 1],
     c_att |-> [b \in Range0(batch_size) |-> 4 * i + 2],
     h_gen |-> [b \in Range0(batch_size) |-> 4 * i + 3],
     c_gen |-> [b \in Range0(batch_size) |-> 4 * i + 4]]

(* True iff the accumulator holds what an earlier decode added to it *)
Accumulated(accumulator) ==
    /\ ~IsNone(accumulator)
    /\ \E b \in DOMAIN accumulator[1] : \E j \in DOMAIN accumulator[1][b] :
          accumulator[1][b][j] # 0

(* attention.reset(encoded_input, batch_size, max_length, device): the
   accumulator (the cumulative alignment) is allocated anew, all zero. *)
AttentionReset(att_, batch_size, max_length) ==
    [accumulator |-> Some([b \in Range0(batch_size) |-> Zeros(max_length)]),
     overwrote   |-> IF IsNone(att_.overwrote)
                     THEN None ELSE Some(Accumulated(att_.accumulator))]

(* attention(h_att, encoded_input, mask, prev_frame): the weights of the
   step are added to the accumulator. *)
AttentionCall(att_, weights) ==
    [att_ EXCEPT !.accumulator =
        Some([b \in DOMAIN weights |->
                 [j \in DOMAIN weights[b] |-> att_.accumulator[1][b][j] + weights[b][j]]])]

Targets(n, frames) == [b \in Range0(n) |-> [t \in Range0(frames) |-> TargetFrame(b, t)]]

Prenet(x) == [prenet |-> x]

(* Mutant of TargetInit: no zero frame is prepended. *)
TargetInitUnshifted(target) ==
    [b \in DOMAIN target |-> [t \in DOMAIN target[b] |-> Prenet(target[b][t])]]

(* _target_init: a zero frame is prepended and the pre-net applied *)
TargetInit(target) ==
    [b \in DOMAIN target |->
        [t \in Range0(Size(target[b]) + 1) |->
            Prenet(IF t = 0 THEN 0 ELSE target[b][t - 1])]]

(* Mutant of TeacherDraws: the draw is compared with the ratio itself. *)
TeacherDrawsOfRatio(ratio, n) ==
    {[i \in Range0(n) |-> r[i] > ratio] : r \in [Range0(n) -> RandValues]}

(* teacher = torch.rand([max_frames]) > (1 - teacher_forcing_ratio) *)
TeacherDraws(ratio, n) ==
    {[i \in Range0(n) |-> r[i] > 100 - ratio] : r \in [Range0(n) -> RandValues]}

(* Mutant of LoopBound: the inference loop runs one step past the cap. *)
LoopBoundPastCap(inference, self_max_frames_, target_frames) ==
    IF inference THEN self_max_frames_ + 1 ELSE target_frames

(* max_frames = self._max_frames if inference else target.size(2) *)
LoopBound(inference, self_max_frames_, target_frames) ==
    IF inference THEN self_max_frames_ ELSE target_frames

(* Mutant of StopCheck: the stop check no longer asks for inference. *)
StopCheckAlways(inference, stop_logits) == SigmoidGe05(stop_logits[0])

(* inference and torch.sigmoid(stop_logits).ge(0.5) *)
StopCheck(inference, stop_logits) == inference /\ SigmoidGe05(stop_logits[0])

(* Mutant of StopUpdate: the first hit frame already counts down. *)
StopUpdateNoContinue(stop_frames_, hp_stop_frames) ==
    LET n == (IF stop_frames_ = -1 THEN hp_stop_frames ELSE stop_frames_) - 1
    IN  [stop_frames |-> n, return |-> n = 0]

(* Mutant of StopUpdate: the decode returns when the countdown is at or
   below zero. *)
StopUpdateBelowZero(stop_frames_, hp_stop_frames) ==
    IF stop_frames_ = -1
    THEN [stop_frames |-> hp_stop_frames, return |-> FALSE]
    ELSE [stop_frames |-> stop_frames_ - 1, return |-> stop_frames_ - 1 <= 0]

(* The body of the stop check: the countdown starts at the first hit frame
   (continue), is decremented at each later one, and returns at zero. *)
StopUpdate(stop_frames_, hp_stop_frames) ==
    IF stop_frames_ = -1
    THEN [stop_frames |-> hp_stop_frames, return |-> FALSE]
    ELSE [stop_frames |-> stop_frames_ - 1, return |-> stop_frames_ - 1 = 0]

(* Mutant of Truncate: the slice ends one step early, [:, :i]. *)
TruncateShort(t, n) == [k \in Range0(SliceStop(n - 1, Size(t))) |-> t[k]]

(* tensor[:, :n] *)
Truncate(t, n) == [k \in Range0(SliceStop(n, Size(t))) |-> t[k]]

(* The outputs of _decode are laid out [batch, frame, ...]: the model's
   step-indexed tensors read batch first *)
BatchFirst(t, batch_size) ==
    [b \in Range0(batch_size) |-> [k \in DOMAIN t |-> t[k][b]]]

(* The post-net adds a predicted residual to every frame; the network is
   opaque, its output is named after the frame it refines. *)
Postnet(pre_prediction) ==
    [b \in DOMAIN pre_prediction |->
        [t \in DOMAIN pre_prediction[b] |-> 100000 + pre_prediction[b][t]]]

(* tensor.masked_fill_(mask, value) *)
MaskedFill(t, mask, value) ==
    [b \in DOMAIN t |-> [k \in DOMAIN t[b] |-> IF mask[b][k] THEN value ELSE t[b][k]]]

(* tensor * mask.unsqueeze(1).float(): every bin of frame k of example b is
   multiplied by 1.0 or by 0.0 *)
TimesMask(t, mask) ==
    [b \in DOMAIN t |-> [k \in DOMAIN t[b] |-> t[b][k] * (IF mask[b][k] THEN 1 ELSE 0)]]

(* Mutant of TargetMask: every frame of the padded target counts as valid. *)
TargetMaskAllValid(target_length, target_frames) ==
    [b \in DOMAIN target_length |-> [t \in Range0(target_frames) |-> TRUE]]

(* target_mask = lengths_to_mask(target_length, target.size(2)) *)
TargetMask(target_length, target_frames) ==
    LengthsToMask(target_length, Some(target_frames))

(* Mutant of ForwardOutputs: the alignment is masked like the stop tokens. *)
ForwardOutputsAlignmentMasked(prediction, stop_token, alignment, target_length, target_frames) ==
    LET pre_prediction == prediction
        post_prediction == Postnet(pre_prediction)
        target_mask == TargetMask(target_length, target_frames)
        not_mask == [b \in DOMAIN target_mask |->
                        [t \in DOMAIN target_mask[b] |-> ~target_mask[b][t]]]
    IN  [post_prediction |-> TimesMask(post_prediction, target_mask),
         pre_prediction  |-> TimesMask(pre_prediction, target_mask),
         stop_token      |-> MaskedFill(stop_token, not_mask, StopFill),
         alignment       |-> [b \in DOMAIN alignment |->
                                [t \in DOMAIN alignment[b] |->
                                    IF target_mask[b][t] THEN alignment[b][t]
                                    ELSE Zeros(Size(alignment[b][t]))]],
         lang_prediction |-> None,
         latent_mean     |-> None,
         latent_var      |-> None]

(* Tacotron.forward after the decoder call: the post-net, the masking of the
   output paddings and the returned tuple.  The reversal classifier and the
   residual encoder are off, their outputs are None. *)
ForwardOutputs(prediction, stop_token, alignment, target_length, target_frames) ==
    LET pre_prediction == prediction
        post_prediction == Postnet(pre_prediction)
        target_mask == TargetMask(target_length, target_frames)
        not_mask == [b \in DOMAIN target_mask |->
                        [t \in DOMAIN target_mask[b] |-> ~target_mask[b][t]]]
    IN  [post_prediction |-> TimesMask(post_prediction, target_mask),
         pre_prediction  |-> TimesMask(pre_prediction, target_mask),
         stop_token      |-> MaskedFill(stop_token, not_mask, StopFill),
         alignment       |-> alignment,
         lang_prediction |-> None,
         latent_mean     |-> None,
         latent_var      |-> None]

(* The batches the collator hands to Tacotron.forward: n examples, the
   utterance lengths in descending order under a symbol tensor as wide as
   the longest, which has MaxUttLen symbols, the frame lengths in any order
   under a target as long as the longest. *)
ForwardBatches ==
    UNION {
        {[text_length |-> tl, target_frames |-> f, target_length |-> gl] :
            tl \in {x \in [Range0(n) -> 1 .. MaxUttLen] :
                        /\ x[0] = MaxUttLen
                        /\ \A i, j \in Range0(n) : i < j => x[i] >= x[j]},
            gl \in {x \in [Range0(n) -> 0 .. f] : \E i \in Range0(n) : x[i] = f}} :
        n \in DecoderBatchSizes, f \in 0 .. MaxFrameCount}

------------------------------------------------------------------------------
(* ModelParallelTacotron.forward.  A batch is the list [text, text_length,
   target, target_length, speakers, languages]; a tensor is the list of its
   rows, and row r of every tensor is named r. *)

(* Mutant of Ceil: the quotient is rounded down. *)
CeilDown(a, b) == a \div b

(* math.ceil(a / b) for a >= 0 and b >= 1 *)
Ceil(a, b) == (a + b - 1) \div b

(* tensor.split(split_size, dim=0): chunks of split_size rows, the last one
   smaller when the row count is not a multiple *)
TorchSplit(x, split_size) ==
    [c \in Range0((Size(x) + split_size - 1) \div split_size) |->
        [k \in Range0(Min2(split_size, Size(x) - c * split_size)) |-> x[c * split_size + k]]]

(* The lists the iterators of batch_splits run over: ns times None for an
   input that is None, the chunks of the tensor otherwise *)
BatchSplits(batch_, split_size) ==
    LET ns == Ceil(Size(batch_[0][1]), split_size) IN
    [x \in DOMAIN batch_ |->
        IF IsNone(batch_[x]) THEN [c \in Range0(ns) |-> None]
        ELSE [c \in Range0(Size(TorchSplit(batch_[x][1], split_size))) |->
                 Some(TorchSplit(batch_[x][1], split_size)[c])]]

(* next() of the zip of batch_splits with the iterators at positions it: the
   iterators are asked in order, and the first exhausted one stops the zip
   after the ones before it have given an element. *)
ZipNext(batch_splits, it) ==
    LET exhausted == {x \in DOMAIN it : it[x] >= Size(batch_splits[x])} IN
    IF exhausted = {}
    THEN [stop  |-> FALSE,
          value |-> Some([x \in DOMAIN it |-> batch_splits[x][it[x]]]),
          it    |-> [x \in DOMAIN it |-> it[x] + 1]]
    ELSE [stop  |-> TRUE,
          value |-> None,
          it    |-> [x \in DOMAIN it |->
                        IF \A y \in exhausted : x < y THEN it[x] + 1 ELSE it[x]]]

(* An optional row of an optional chunk *)
RowOf(chunk, k) == IF IsNone(chunk) THEN None ELSE Some(chunk[1][k])

(* _encoder_forward(splits): the encoder is opaque, row k of its output is
   named after the rows it was computed from. *)
EncoderForward(splits) ==
    [k \in DOMAIN splits[0][1] |->
        [text        |-> splits[0][1][k],
         text_length |-> splits[1][1][k],
         language    |-> RowOf(splits[5], k)]]

(* The rows _decoder_forward appends to each of the four lists of ret: the
   decoder, the post-net and the masking are opaque here, row k is named
   after the encoder row and the rows of the splits it was computed from. *)
DecoderForward(encoded, splits) ==
    [k \in DOMAIN encoded |->
        [encoded        |-> encoded[k],
         encoded_length |-> splits[1][1][k],
         target         |-> splits[2][1][k],
         target_length  |-> splits[3][1][k],
         speaker        |-> RowOf(splits[4], k),
         language       |-> RowOf(splits[5], k)]]

(* torch.cat(x): the rows of the chunks of the list x, in list order *)
RECURSIVE TorchCat(_, _, _)
TorchCat(x, c, rows) ==
    IF c >= Size(x) THEN rows
    ELSE TorchCat(x, c + 1,
                  [r \in Range0(Size(rows) + Size(x[c])) |->
                      IF r < Size(rows) THEN rows[r] ELSE x[c][r - Size(rows)]])

(* The batches of the explored calls: B rows, with or without speakers and
   languages *)
ParallelBatches ==
    {[x \in Range0(6) |->
         IF (x = 4 /\ ~with_speakers) \/ (x = 5 /\ ~with_languages)
         THEN None ELSE Some([r \in Range0(B) |-> r])] :
        B \in 1 .. MaxRows, with_speakers \in BOOLEAN, with_languages \in BOOLEAN}

------------------------------------------------------------------------------

(* train.py: save_checkpoint, load_checkpoint and the script around them.
   The state of a model, an optimizer or a scheduler is opaque: a state
   dictionary is named after the kind of object it came from and the state
   it holds. *)

(* save_checkpoint: the dictionary torch.save writes to checkpoint_path *)
SaveCheckpoint(epoch, model, optimizer, sheduler) ==
    [epoch     |-> epoch,
     model     |-> [of |-> "model", state |-> model],
     optimizer |-> [of |-> "optimizer", state |-> optimizer],
     scheduler |-> [of |-> "scheduler", state |-> sheduler]]

(* load_checkpoint on the dictionary torch.load reads.  load_state_dict
   takes the state of a dictionary that came from an object of its own
   kind; given another one, the keys do not match and it raises, the object
   left as it was.  Statements after a raise are not executed. *)
LoadCheckpoint(state, model, optimizer, scheduler) ==
    LET Raises(kind, state_dict) == state_dict.of # kind IN
    IF Raises("model", state["optimizer"])
    THEN [raised |-> Some("RuntimeError"), returned |-> None,
          model |-> model, optimizer |-> optimizer, scheduler |-> scheduler]
    ELSE IF Raises("optimizer", state["optimizer"])
    THEN [raised |-> Some("ValueError"), returned |-> None,
          model |-> state["optimizer"].state, optimizer |-> optimizer, scheduler |-> scheduler]
    ELSE IF Raises("scheduler", state["scheduler"])
    THEN [raised |-> Some("KeyError"), returned |-> None,
          model |-> state["optimizer"].state, optimizer |-> state["optimizer"].state,
          scheduler |-> scheduler]
    ELSE [raised |-> None, returned |-> Some(state["epoch"]),
          model |-> state["optimizer"].state, optimizer |-> state["optimizer"].state,
          scheduler |-> state["scheduler"].state]

------------------------------------------------------------------------------

(* TacotronLoss.  The band width _g and the factor _gamma are integers
   here. *)

(* Mutant of UpdateStates: the band width is multiplied only while steps
   remain. *)
UpdateStatesWhileSteps(self) ==
    [self EXCEPT !.g = IF self.g_steps > 0 THEN @ * self.gamma ELSE @,
                 !.g_steps = Max2(0, @ - 1)]

(* TacotronLoss.update_states *)
UpdateStates(self) ==
    [self EXCEPT !.g = @ * self.gamma,
                 !.g_steps = Max2(0, @ - 1)]

------------------------------------------------------------------------------

(* State *)

VARIABLES
    hp,              \* the fields of params.Params the model reads
    batch,           \* the list of examples handed to the collator
    col_pc,          \* "ready" before the collator call, "done" after it
    out,             \* what the collator returned (None before)
    self_max_frames, \* Decoder._max_frames
    dec,             \* the locals of the running _decode call; dec.produced
                     \* is the history of the stop logits the network gave
    ret,             \* what the last _decode call returned (None before)
    fwd,             \* the locals of the running Tacotron.forward call
    att,             \* the attributes of the decoder's attention module,
                     \* which outlive a _decode call; att.overwrote tells,
                     \* where a specification records it, whether the last
                     \* reset found the accumulator of an earlier decode
    fs,              \* the manifests on disk: None, or the lines of the file
    ds,              \* the outcome of the dataset or collection constructor
    load,            \* the outcome of the load_spectrogram call
    grl,             \* the gradient reversal layer: its parameters, the
                     \* context forward saved, and what the calls returned
    mp,              \* the locals of the running ModelParallelTacotron.forward
                     \* call, and the encoder and decoder calls it has made
    ckpt,            \* train.py: the model, optimizer and scheduler states,
                     \* the epoch, and the checkpoint file
    loss             \* the TacotronLoss object: its counter and band width

vars == << hp, batch, col_pc, out, self_max_frames, dec, ret, fwd, att, fs, ds, load, grl,
          mp, ckpt, loss >>

trainvars == << mp, ckpt, loss >>

auxvars == << load, grl, trainvars >>

NoParallel == [pc |-> "idle"]

NoCheckpoint == [pc |-> "none"]

NoLoss == [pc |-> "none"]

NotLoaded == [pc |-> "ready"]

NoReversal == [pc |-> "none"]

iovars == << fs, ds >>

modelvars == << self_max_frames, dec, ret, fwd, att >>

(* The attention module after construction: nothing accumulated yet *)
NoAttention == [accumulator |-> None, overwrote |-> None]

NoFiles == [train |-> None, val |-> None, test |-> None]

NotConstructed == [pc |-> "ready"]

colvars == << batch, col_pc, out >>

NoDecode == [pc |-> "idle"]

NoForward == [pc |-> "idle"]

InitCollate ==
    /\ hp \in [multi_speaker : BOOLEAN, multi_language : BOOLEAN,
               predict_linear : BOOLEAN, stop_frames : {stop_frames}]
    /\ batch \in Batches(hp.predict_linear)
    /\ col_pc = "ready"
    /\ out = None
    /\ self_max_frames = MaxOutputLength
    /\ dec = NoDecode
    /\ ret = None
    /\ fwd = NoForward
    /\ load = NotLoaded
    /\ grl = NoReversal
    /\ fs = NoFiles
    /\ ds = NotConstructed
    /\ mp = NoParallel
    /\ ckpt = NoCheckpoint
    /\ loss = NoLoss
    /\ att = NoAttention

Collate ==
    /\ col_pc = "ready"
    /\ \E sorted_idxs \in TorchSortDescending(UtteranceLengths(batch)) :
          out' = Some(CollateResult(batch, sorted_idxs, hp))
    /\ col_pc' = "done"
    /\ UNCHANGED << auxvars, hp, batch, modelvars, iovars >>

NextCollate == Collate

SpecCollate == InitCollate /\ [][NextCollate]_vars

(* A file system whose training manifest, if there is one, is any of the
   voice manifests; the validation and test manifests, if there, have one
   line. *)
InitDataset ==
    /\ \E languages \in LanguageLists :
          hp = [languages |-> languages, use_punctuation |-> TRUE,
                case_sensitive |-> TRUE, remove_multiple_wspaces |-> TRUE]
    /\ \E train \in {None} \cup {Some(m) : m \in VoiceManifests},
          val, test \in {None, Some([k \in Range0(1) |-> Line("anna", "en", << "A" >>, << "A" >>)])} :
          fs = [train |-> train, val |-> val, test |-> test]
    /\ ds = NotConstructed
    /\ mp = NoParallel
    /\ ckpt = NoCheckpoint
    /\ loss = NoLoss
    /\ att = NoAttention
    /\ batch = << >>
    /\ col_pc = "idle"
    /\ out = None
    /\ self_max_frames = MaxOutputLength
    /\ dec = NoDecode
    /\ ret = None
    /\ fwd = NoForward
    /\ load = NotLoaded
    /\ grl = NoReversal

(* A training manifest of one line of any text and phonemes, under any
   setting of the three cleaning flags *)
InitCleaning ==
    /\ \E use_punctuation, case_sensitive, remove_multiple_wspaces \in BOOLEAN :
          hp = [languages |-> [k \in Range0(1) |-> "en"],
                use_punctuation |-> use_punctuation,
                case_sensitive |-> case_sensitive,
                remove_multiple_wspaces |-> remove_multiple_wspaces]
    /\ \E m \in TextManifests : fs = [train |-> Some(m), val |-> None, test |-> None]
    /\ ds = NotConstructed
    /\ mp = NoParallel
    /\ ckpt = NoCheckpoint
    /\ loss = NoLoss
    /\ att = NoAttention
    /\ batch = << >>
    /\ col_pc = "idle"
    /\ out = None
    /\ self_max_frames = MaxOutputLength
    /\ dec = NoDecode
    /\ ret = None
    /\ fwd = NoForward
    /\ load = NotLoaded
    /\ grl = NoReversal

(* TextToSpeechDataset(train manifest, root_dir): open() raises when the
   file is not there. *)
DatasetInit ==
    /\ ds.pc = "ready"
    /\ IF IsNone(fs.train)
       THEN ds' = [pc |-> "done", call |-> "dataset",
                   raised |-> Some("FileNotFoundError"), value |-> None]
       ELSE \E dataset \in Datasets(fs.train, hp) :
               ds' = [pc |-> "done", call |-> "dataset",
                      raised |-> None, value |-> Some(dataset)]
    /\ UNCHANGED << auxvars, hp, colvars, modelvars, fs >>

(* TextToSpeechDatasetCollection(root_dir, test_file=test_file) *)
CollectionInit ==
    /\ ds.pc = "ready"
    /\ \E test_file \in {None, Some("test")} :
          \E outcome \in Collection(fs, test_file, hp) :
              ds' = [pc |-> "done", call |-> "collection", test_file |-> test_file,
                     raised |-> outcome.raised, value |-> outcome.value,
                     loaded |-> outcome.loaded]
    /\ UNCHANGED << auxvars, hp, colvars, modelvars, fs >>

NextDataset == DatasetInit \/ CollectionInit

SpecDataset == InitDataset /\ [][NextDataset]_vars

SpecCleaning == InitCleaning /\ [][NextDataset]_vars

(* A training manifest given as text, with the default cleaning flags of
   params.py except that the text keeps its case *)
InitManifest ==
    /\ hp = [languages |-> [k \in Range0(1) |-> << "e", "n" >>],
             use_punctuation |-> TRUE, case_sensitive |-> TRUE,
             remove_multiple_wspaces |-> TRUE]
    /\ \E content \in TextManifestFiles :
          fs = [train |-> Some(content), val |-> None, test |-> None]
    /\ ds = NotConstructed
    /\ mp = NoParallel
    /\ ckpt = NoCheckpoint
    /\ loss = NoLoss
    /\ att = NoAttention
    /\ batch = << >>
    /\ col_pc = "idle"
    /\ out = None
    /\ self_max_frames = MaxOutputLength
    /\ dec = NoDecode
    /\ ret = None
    /\ fwd = NoForward
    /\ load = NotLoaded
    /\ grl = NoReversal

(* TextToSpeechDataset(train manifest, root_dir), the manifest read
   character by character *)
DatasetInitFromText ==
    /\ ds.pc = "ready"
    /\ ~IsNone(fs.train)
    /\ \E outcome \in DatasetsOfText(fs.train[1], hp) :
          ds' = [pc |-> "done", call |-> "dataset",
                 raised |-> outcome.raised, value |-> outcome.value,
                 read |-> outcome.read]
    /\ UNCHANGED << auxvars, hp, colvars, modelvars, fs >>

NextManifest == DatasetInitFromText

SpecManifest == InitManifest /\ [][NextManifest]_vars

(* A dataset whose spectrograms are cached on disk or computed on demand *)
InitLoad ==
    /\ \E cache_spectrograms \in BOOLEAN : hp = [cache_spectrograms |-> cache_spectrograms]
    /\ load = NotLoaded
    /\ grl = NoReversal
    /\ fs = NoFiles
    /\ ds = NotConstructed
    /\ mp = NoParallel
    /\ ckpt = NoCheckpoint
    /\ loss = NoLoss
    /\ att = NoAttention
    /\ batch = << >>
    /\ col_pc = "idle"
    /\ out = None
    /\ self_max_frames = MaxOutputLength
    /\ dec = NoDecode
    /\ ret = None
    /\ fwd = NoForward

(* TextToSpeechDataset.load_spectrogram: the array is what np.load finds at
   spectrogram_path, or what audio.spectrogram computes from the audio. *)
LoadSpectrogram ==
    /\ load.pc = "ready"
    /\ \E normalize, is_mel \in BOOLEAN :
          \E spectrogram \in IF hp.cache_spectrograms THEN Arrays("np.load")
                              ELSE Arrays("audio.spectrogram") :
              LET r == LoadSpectrogramResult(spectrogram, normalize, is_mel) IN
              load' = [pc |-> "done", normalize |-> normalize, is_mel |-> is_mel,
                       spectrogram |-> spectrogram,
                       raised |-> r.raised, value |-> r.value,
                       normalize_called |-> r.normalize_called]
    /\ UNCHANGED << hp, colvars, modelvars, iovars, grl, trainvars >>

NextLoad == LoadSpectrogram

SpecLoad == InitLoad /\ [][NextLoad]_vars

(* A ReversalClassifier with its scale factor and its clipping bound *)
InitReversal ==
    /\ \E scale_factor \in Lambdas, gradient_clipping_bounds \in 0 .. MaxGrad :
          grl = [pc |-> "built", lambda |-> scale_factor, clipping |-> gradient_clipping_bounds]
    /\ hp = [reversal_classifier |-> TRUE]
    /\ load = NotLoaded
    /\ fs = NoFiles
    /\ ds = NotConstructed
    /\ mp = NoParallel
    /\ ckpt = NoCheckpoint
    /\ loss = NoLoss
    /\ att = NoAttention
    /\ batch = << >>
    /\ col_pc = "idle"
    /\ out = None
    /\ self_max_frames = MaxOutputLength
    /\ dec = NoDecode
    /\ ret = None
    /\ fwd = NoForward

(* ReversalClassifier.forward up to the classifier:
   GradientReversalFunction.apply(x, self._lambda, self._clipping) *)
ReversalForward ==
    /\ grl.pc = "built"
    /\ \E x \in [GradWidth -> -1 .. 1] :
          grl' = [pc |-> "forward", lambda |-> grl.lambda, clipping |-> grl.clipping,
                  x |-> x,
                  ctx |-> [l |-> grl.lambda, c |-> grl.clipping],
                  output |-> x]
    /\ UNCHANGED << hp, colvars, modelvars, iovars, load, trainvars >>

(* autograd calls GradientReversalFunction.backward with the gradient of the
   loss with respect to the output of forward *)
ReversalBackward ==
    /\ grl.pc = "forward"
    /\ \E grad_output \in [GradWidth -> (0 - MaxGrad) .. MaxGrad] :
          grl' = [pc |-> "backward", lambda |-> grl.lambda, clipping |-> grl.clipping,
                  x |-> grl.x, ctx |-> grl.ctx, output |-> grl.output,
                  grad_output |-> grad_output,
                  grads |-> Backward(grl.ctx, grad_output)]
    /\ UNCHANGED << hp, colvars, modelvars, iovars, load, trainvars >>

NextReversal == ReversalForward \/ ReversalBackward

SpecReversal == InitReversal /\ [][NextReversal]_vars

(* A decoder whose calls are forward calls: _max_frames, which they do not
   read, is the configured cap, and stop_frames, which they do not read
   either, is the shortest countdown or the configured one. *)
InitForward ==
    /\ hp \in [multi_speaker : {FALSE}, multi_language : {FALSE},
               predict_linear : {FALSE}, stop_frames : {1, stop_frames}]
    /\ batch = << >>
    /\ col_pc = "idle"
    /\ out = None
    /\ self_max_frames = MaxOutputLength
    /\ dec = NoDecode
    /\ ret = None
    /\ fwd = NoForward
    /\ load = NotLoaded
    /\ grl = NoReversal
    /\ fs = NoFiles
    /\ ds = NotConstructed
    /\ mp = NoParallel
    /\ ckpt = NoCheckpoint
    /\ loss = NoLoss
    /\ att = NoAttention

(* A decoder whose calls are inference calls *)
InitInference ==
    /\ hp \in [multi_speaker : {FALSE}, multi_language : {FALSE},
               predict_linear : {FALSE}, stop_frames : -1 .. MaxStopFrames]
    /\ batch = << >>
    /\ col_pc = "idle"
    /\ out = None
    /\ self_max_frames \in 0 .. MaxOutputLength
    /\ dec = NoDecode
    /\ ret = None
    /\ fwd = NoForward
    /\ load = NotLoaded
    /\ grl = NoReversal
    /\ fs = NoFiles
    /\ ds = NotConstructed
    /\ mp = NoParallel
    /\ ckpt = NoCheckpoint
    /\ loss = NoLoss
    /\ att = NoAttention

(* The part of _decode before the loop *)
DecodeStart(batch_size, mask, target, teacher_forcing_ratio, teacher) ==
    LET inference == IsNone(target)
        max_length == Size(mask[0])
        cells == DecoderInit(batch_size)
        max_frames == LoopBound(inference, self_max_frames,
                                IF inference THEN 0 ELSE Size(target[1][0]))
    IN  /\ dec' = [pc          |-> "loop",
                   batch_size  |-> batch_size,
                   max_length  |-> max_length,
                   mask        |-> mask,
                   inference   |-> inference,
                   max_frames  |-> max_frames,
                   teacher_forcing_ratio |-> teacher_forcing_ratio,
                   h_att       |-> cells.h_att,
                   c_att       |-> cells.c_att,
                   h_gen       |-> cells.h_gen,
                   c_gen       |-> cells.c_gen,
                   frame       |-> [b \in Range0(batch_size) |-> 0],
                   prev_frame  |-> None,
                   target      |-> IF inference THEN None ELSE Some(TargetInit(target[1])),
                   teacher     |-> teacher,
                   spectrogram |-> [k \in Range0(max_frames) |-> Zeros(batch_size)],
                   alignments  |-> [k \in Range0(max_frames) |->
                                      [b \in Range0(batch_size) |-> Zeros(max_length)]],
                   stop_tokens |-> [k \in Range0(max_frames) |-> Zeros(batch_size)],
                   stop_frames |-> -1,
                   i           |-> 0,
                   steps       |-> 0,
                   produced    |-> << >>]
        /\ ret' = None
        /\ att' = AttentionReset(att, batch_size, max_length)
        /\ UNCHANGED << auxvars, hp, colvars, self_max_frames, iovars >>

(* The lengths of an encoder output of one position, without padding *)
UnpaddedLengths(batch_size) == [b \in Range0(batch_size) |-> 1]

(* Decoder.forward called on its own, on an encoder output of one position:
   a target is given *)
Forward ==
    /\ dec.pc = "idle"
    /\ fwd' = fwd
    /\ \E batch_size \in DecoderBatchSizes, frames \in 0 .. MaxTargetFrames, ratio \in Ratios :
          \E teacher \in TeacherDraws(ratio, frames) :
              DecodeStart(batch_size,
                          ForwardMask(UnpaddedLengths(batch_size), 1),
                          Some(Targets(batch_size, frames)), ratio, Some(teacher))

(* Decoder.inference: no target, a batch of one of any width, ratio 0.0 *)
Inference ==
    /\ dec.pc = "idle"
    /\ fwd' = fwd
    /\ \E ml \in 1 .. MaxUttLen : DecodeStart(1, InferenceMask(ml), None, 0, None)

(* One iteration of the decoding loop *)
DecodeStep ==
    /\ dec.pc = "loop"
    /\ dec.i < dec.max_frames
    /\ \E stop_logits \in [Range0(dec.batch_size) -> StopLogits] :
          LET i == dec.i
              prev_frame == IF dec.inference \/ ~dec.teacher[1][i]
                            THEN [b \in Range0(dec.batch_size) |-> Prenet(dec.frame[b])]
                            ELSE [b \in Range0(dec.batch_size) |-> dec.target[1][b][i]]
              frame == [b \in Range0(dec.batch_size) |-> PredictedFrame(b, i)]
              weights == Attention(dec.mask, i)
              cells == LstmCells(dec.batch_size, i)
              stored == [dec EXCEPT !.prev_frame = Some(prev_frame),
                                    !.h_att = cells.h_att,
                                    !.c_att = cells.c_att,
                                    !.h_gen = cells.h_gen,
                                    !.c_gen = cells.c_gen,
                                    !.frame = frame,
                                    !.spectrogram[i] = frame,
                                    !.alignments[i] = weights,
                                    !.stop_tokens[i] = stop_logits,
                                    !.steps = @ + 1,
                                    !.produced = Append(@, stop_logits)]
              upd == StopUpdate(dec.stop_frames, hp.stop_frames)
          IN  IF StopCheck(dec.inference, stop_logits)
              THEN IF upd.return
                   THEN /\ dec' = [stored EXCEPT !.stop_frames = upd.stop_frames, !.pc = "done"]
                        /\ ret' = Some([spectrogram |-> Truncate(stored.spectrogram, i + 1),
                                        stop_tokens |-> Truncate(stored.stop_tokens, i + 1),
                                        alignments  |-> Truncate(stored.alignments, i + 1)])
                   ELSE /\ dec' = [stored EXCEPT !.stop_frames = upd.stop_frames, !.i = i + 1]
                        /\ ret' = ret
              ELSE /\ dec' = [stored EXCEPT !.i = i + 1]
                   /\ ret' = ret
    /\ att' = AttentionCall(att, Attention(dec.mask, dec.i))
    /\ UNCHANGED << auxvars, hp, colvars, self_max_frames, fwd, iovars >>

(* The loop ran out: the untruncated tensors are returned *)
DecodeReturn ==
    /\ dec.pc = "loop"
    /\ dec.i >= dec.max_frames
    /\ dec' = [dec EXCEPT !.pc = "done"]
    /\ ret' = Some([spectrogram |-> dec.spectrogram,
                    stop_tokens |-> dec.stop_tokens,
                    alignments  |-> dec.alignments])
    /\ UNCHANGED << auxvars, hp, colvars, self_max_frames, fwd, att, iovars >>

(* The caller of Decoder.forward or Decoder.inference has taken the result;
   the locals of the call are discarded and the decoder is ready for its
   next call. *)
DecodeExit ==
    /\ dec.pc = "done"
    /\ fwd.pc = "idle"
    /\ dec' = NoDecode
    /\ ret' = None
    /\ UNCHANGED << auxvars, hp, colvars, self_max_frames, fwd, att, iovars >>

(* Tacotron.forward up to the decoder call: the encoder output is as wide as
   the symbol tensor, and text_length is handed on as the encoded lengths. *)
TacotronForward ==
    /\ fwd.pc = "idle"
    /\ dec.pc = "idle"
    /\ \E b \in ForwardBatches, ratio \in ForwardRatios :
          \E teacher \in TeacherDraws(ratio, b.target_frames) :
              LET batch_size == Size(b.text_length) IN
              /\ DecodeStart(batch_size,
                             ForwardMask(b.text_length, b.text_length[0]),
                             Some(Targets(batch_size, b.target_frames)),
                             ratio, Some(teacher))
              /\ fwd' = [pc            |-> "decoder",
                         text_length   |-> b.text_length,
                         target_length |-> b.target_length,
                         target_frames |-> b.target_frames]

(* Tacotron.forward from the return of the decoder call on.  masked_fill_
   works in place: the stop logits the decoder returned are overwritten. *)
TacotronForwardReturn ==
    /\ fwd.pc = "decoder"
    /\ dec.pc = "done"
    /\ LET batch_size == Size(fwd.text_length)
           decoded == ret[1]
           outputs == ForwardOutputs(BatchFirst(decoded.spectrogram, batch_size),
                                     BatchFirst(decoded.stop_tokens, batch_size),
                                     BatchFirst(decoded.alignments, batch_size),
                                     fwd.target_length, fwd.target_frames)
       IN  /\ fwd' = [pc            |-> "done",
                      text_length   |-> fwd.text_length,
                      target_length |-> fwd.target_length,
                      target_frames |-> fwd.target_frames,
                      outputs       |-> outputs]
           /\ ret' = Some([decoded EXCEPT !.stop_tokens =
                              [k \in DOMAIN decoded.stop_tokens |->
                                  [b \in Range0(batch_size) |-> outputs.stop_token[b][k]]]])
    /\ UNCHANGED << auxvars, hp, colvars, self_max_frames, dec, att, iovars >>

(* The training step has taken the outputs. *)
TacotronForwardExit ==
    /\ fwd.pc = "done"
    /\ fwd' = NoForward
    /\ dec' = NoDecode
    /\ ret' = None
    /\ UNCHANGED << auxvars, hp, colvars, self_max_frames, att, iovars >>

NextForward == Forward \/ DecodeStep \/ DecodeReturn \/ DecodeExit

SpecForward == InitForward /\ [][NextForward]_vars

NextInference == Inference \/ DecodeStep \/ DecodeReturn \/ DecodeExit

SpecInference == InitInference /\ [][NextInference]_vars

(* A model that serves Tacotron.forward calls *)
InitTacotron ==
    /\ hp \in [multi_speaker : {FALSE}, multi_language : {FALSE},
               predict_linear : {FALSE}, stop_frames : {stop_frames}]
    /\ batch = << >>
    /\ col_pc = "idle"
    /\ out = None
    /\ self_max_frames = MaxOutputLength
    /\ dec = NoDecode
    /\ ret = None
    /\ fwd = NoForward
    /\ load = NotLoaded
    /\ grl = NoReversal
    /\ fs = NoFiles
    /\ ds = NotConstructed
    /\ mp = NoParallel
    /\ ckpt = NoCheckpoint
    /\ loss = NoLoss
    /\ att = NoAttention

NextTacotron ==
    TacotronForward \/ DecodeStep \/ DecodeReturn \/ TacotronForwardReturn \/ TacotronForwardExit

SpecTacotron == InitTacotron /\ [][NextTacotron]_vars

(* A decoder that serves forward and inference calls in any order, with the
   shortest countdown; what each reset of the attention module found is
   recorded. *)
InitDecoder ==
    /\ hp \in [multi_speaker : {FALSE}, multi_language : {FALSE},
               predict_linear : {FALSE}, stop_frames : {1}]
    /\ batch = << >>
    /\ col_pc = "idle"
    /\ out = None
    /\ self_max_frames = MaxOutputLength
    /\ dec = NoDecode
    /\ ret = None
    /\ fwd = NoForward
    /\ load = NotLoaded
    /\ grl = NoReversal
    /\ fs = NoFiles
    /\ ds = NotConstructed
    /\ mp = NoParallel
    /\ ckpt = NoCheckpoint
    /\ loss = NoLoss
    /\ att = [accumulator |-> None, overwrote |-> Some(FALSE)]

NextDecoder == Forward \/ Inference \/ DecodeStep \/ DecodeReturn \/ DecodeExit

SpecDecoder == InitDecoder /\ [][NextDecoder]_vars

(* A ModelParallelTacotron of any split size *)
InitParallel ==
    /\ hp \in [modelparallel_split_size : 1 .. MaxSplitSize]
    /\ batch = << >>
    /\ col_pc = "idle"
    /\ out = None
    /\ self_max_frames = MaxOutputLength
    /\ dec = NoDecode
    /\ ret = None
    /\ fwd = NoForward
    /\ att = NoAttention
    /\ load = NotLoaded
    /\ grl = NoReversal
    /\ fs = NoFiles
    /\ ds = NotConstructed
    /\ mp = NoParallel
    /\ ckpt = NoCheckpoint
    /\ loss = NoLoss

(* ModelParallelTacotron.forward up to its loop: the batch is split, the
   first splits are taken and encoded.  next() on a zip that gives nothing
   raises StopIteration. *)
ParallelForward ==
    /\ mp.pc = "idle"
    /\ \E batch_ \in ParallelBatches :
          LET batch_splits == BatchSplits(batch_, hp.modelparallel_split_size)
              first == ZipNext(batch_splits, [x \in Range0(6) |-> 0])
          IN  IF first.stop
              THEN mp' = [pc |-> "done", batch |-> batch_, raised |-> Some("StopIteration"),
                          value |-> None, encoder_calls |-> << >>, decoder_calls |-> << >>]
              ELSE mp' = [pc            |-> "loop",
                          batch         |-> batch_,
                          batch_splits  |-> batch_splits,
                          it            |-> first.it,
                          ret           |-> << >>,
                          encoded       |-> EncoderForward(first.value[1]),
                          prev_splits   |-> first.value[1],
                          encoder_calls |-> << first.value[1] >>,
                          decoder_calls |-> << >>]
    /\ UNCHANGED << load, grl, ckpt, loss, hp, colvars, modelvars, iovars >>

(* One iteration of the loop: the splits taken before are decoded with
   their encoding while the next ones are encoded. *)
ParallelStep ==
    /\ mp.pc = "loop"
    /\ LET next_splits == ZipNext(mp.batch_splits, mp.it) IN
       /\ ~next_splits.stop
       /\ mp' = [mp EXCEPT
                    !.it            = next_splits.it,
                    !.ret           = ListAppend(@, DecoderForward(mp.encoded, mp.prev_splits)),
                    !.encoded       = EncoderForward(next_splits.value[1]),
                    !.prev_splits   = next_splits.value[1],
                    !.encoder_calls = Append(@, next_splits.value[1]),
                    !.decoder_calls = Append(@, [encoded |-> mp.encoded,
                                                 splits |-> mp.prev_splits])]
    /\ UNCHANGED << load, grl, ckpt, loss, hp, colvars, modelvars, iovars >>

(* The zip is exhausted: the last splits are decoded and the four lists of
   ret, which all hold the same rows here, are concatenated. *)
ParallelReturn ==
    /\ mp.pc = "loop"
    /\ LET next_splits == ZipNext(mp.batch_splits, mp.it)
           ret_ == ListAppend(mp.ret, DecoderForward(mp.encoded, mp.prev_splits))
           rows == TorchCat(ret_, 0, << >>)
       IN
       /\ next_splits.stop
       /\ mp' = [pc            |-> "done",
                 batch         |-> mp.batch,
                 raised        |-> None,
                 value         |-> Some([post_prediction |-> rows, pre_prediction |-> rows,
                                         stop_token |-> rows, alignment |-> rows]),
                 encoder_calls |-> mp.encoder_calls,
                 decoder_calls |-> Append(mp.decoder_calls, [encoded |-> mp.encoded,
                                                             splits |-> mp.prev_splits])]
    /\ UNCHANGED << load, grl, ckpt, loss, hp, colvars, modelvars, iovars >>

(* The training step has taken the outputs. *)
ParallelExit ==
    /\ mp.pc = "done"
    /\ mp' = NoParallel
    /\ UNCHANGED << load, grl, ckpt, loss, hp, colvars, modelvars, iovars >>

NextParallel == ParallelForward \/ ParallelStep \/ ParallelReturn \/ ParallelExit

SpecParallel == InitParallel /\ [][NextParallel]_vars

(* The training script started without a checkpoint: fresh model, optimizer
   and scheduler, initial_epoch = 0, no checkpoint file yet. *)
InitCheckpoint ==
    /\ hp = [epochs |-> MaxEpochs]
    /\ batch = << >>
    /\ col_pc = "idle"
    /\ out = None
    /\ self_max_frames = MaxOutputLength
    /\ dec = NoDecode
    /\ ret = None
    /\ fwd = NoForward
    /\ att = NoAttention
    /\ load = NotLoaded
    /\ grl = NoReversal
    /\ fs = NoFiles
    /\ ds = NotConstructed
    /\ mp = NoParallel
    /\ loss = NoLoss
    /\ ckpt = [pc |-> "training", model |-> 0, optimizer |-> 0, scheduler |-> 0,
               epoch |-> 0, file |-> None, raised |-> None, returned |-> None]

(* One iteration of the training loop: train() leaves the model and the
   optimizer in some new state, scheduler.step() advances the scheduler,
   and, when the evaluation loss is the best so far, the checkpoint of this
   epoch is written. *)
TrainEpoch ==
    /\ ckpt.pc \in {"training", "resumed"}
    /\ ckpt.epoch < hp.epochs
    /\ \E model \in 1 .. 3, optimizer \in 4 .. 6, save \in BOOLEAN :
          LET scheduler == ckpt.scheduler + 1 IN
          ckpt' = [ckpt EXCEPT
                      !.pc        = "training",
                      !.model     = model,
                      !.optimizer = optimizer,
                      !.scheduler = scheduler,
                      !.epoch     = @ + 1,
                      !.file      = IF save
                                    THEN Some(SaveCheckpoint(ckpt.epoch, model, optimizer, scheduler))
                                    ELSE @]
    /\ UNCHANGED << load, grl, mp, loss, hp, colvars, modelvars, iovars >>

(* The script is started again with --checkpoint naming the file written
   last: fresh model, optimizer and scheduler, then load_checkpoint; an
   exception ends the script. *)
Resume ==
    /\ ckpt.pc = "training"
    /\ ~IsNone(ckpt.file)
    /\ LET loaded == LoadCheckpoint(ckpt.file[1], 0, 0, 0) IN
       ckpt' = [pc        |-> IF IsNone(loaded.raised) THEN "resumed" ELSE "aborted",
                model     |-> loaded.model,
                optimizer |-> loaded.optimizer,
                scheduler |-> loaded.scheduler,
                epoch     |-> IF IsNone(loaded.raised) THEN loaded.returned[1] + 1 ELSE 0,
                file      |-> ckpt.file,
                raised    |-> loaded.raised,
                returned  |-> loaded.returned]
    /\ UNCHANGED << load, grl, mp, loss, hp, colvars, modelvars, iovars >>

NextCheckpoint == TrainEpoch \/ Resume

SpecCheckpoint == InitCheckpoint /\ [][NextCheckpoint]_vars

(* TacotronLoss(guided_att_steps, guided_att_variance, guided_att_gamma),
   with the guided attention loss switched on or off in the parameters.
   updates counts the update_states calls made; term is what the last
   forward since the last of them gave as the guided attention term. *)
InitLoss ==
    /\ hp \in [guided_attention_loss : BOOLEAN]
    /\ batch = << >>
    /\ col_pc = "idle"
    /\ out = None
    /\ self_max_frames = MaxOutputLength
    /\ dec = NoDecode
    /\ ret = None
    /\ fwd = NoForward
    /\ att = NoAttention
    /\ load = NotLoaded
    /\ grl = NoReversal
    /\ fs = NoFiles
    /\ ds = NotConstructed
    /\ mp = NoParallel
    /\ ckpt = NoCheckpoint
    /\ \E guided_att_steps \in 0 .. MaxGuidedSteps, guided_att_variance \in 1 .. 2,
          guided_att_gamma \in 2 .. 3 :
          loss = [pc |-> "created",
                  guided_att_steps |-> guided_att_steps,
                  guided_att_variance |-> guided_att_variance,
                  g |-> guided_att_variance,
                  gamma |-> guided_att_gamma,
                  g_steps |-> guided_att_steps,
                  updates |-> 0,
                  term |-> None]

(* criterion.update_states() *)
LossUpdateStates ==
    /\ loss.pc = "created"
    /\ loss.updates < MaxUpdates
    /\ loss' = [UpdateStates(loss) EXCEPT !.updates = @ + 1, !.term = None]
    /\ UNCHANGED << load, grl, mp, ckpt, hp, colvars, modelvars, iovars >>

(* TacotronLoss.forward, its guided attention term: absent when the loss is
   switched off, 0 when no steps remain, computed with the band width _g
   otherwise. *)
LossForward ==
    /\ loss.pc = "created"
    /\ loss' = [loss EXCEPT !.term =
                   IF ~hp.guided_attention_loss THEN Some("absent")
                   ELSE IF loss.g_steps = 0 THEN Some("0")
                   ELSE Some("computed")]
    /\ UNCHANGED << load, grl, mp, ckpt, hp, colvars, modelvars, iovars >>

NextLoss == LossUpdateStates \/ LossForward

SpecLoss == InitLoss /\ [][NextLoss]_vars

(* The interpreter runs a started call to its end. *)
FairSpecInference == SpecInference /\ WF_vars(DecodeStep) /\ WF_vars(DecodeReturn)

------------------------------------------------------------------------------
(* Properties of the collator *)

CollateDone == col_pc = "done"

Returned == out[1]

BatchSize == Size(batch)

SetMax(S) == CHOOSE m \in S : \A x \in S : x <= m

LongestUtterance == SetMax({Size(batch[k].u) : k \in DOMAIN batch})

LongestSpectrogram == SetMax({Size(batch[k].a) : k \in DOMAIN batch})

(* row is vals followed by zeros up to width n *)
IsPadded(row, vals, n) ==
    /\ DOMAIN row = Range0(n)
    /\ DOMAIN vals \subseteq DOMAIN row
    /\ \A j \in DOMAIN row : row[j] = IF j \in DOMAIN vals THEN vals[j] ELSE 0

Descending(lens) == \A i, j \in DOMAIN lens : i < j => lens[i] >= lens[j]

(* Everything returned at index i was built from example e *)
RowFrom(i, e) ==
    LET o == Returned IN
    /\ o.sorted_utterance_lengths[i] = Size(e.u)
    /\ IsPadded(o.utterances[i], e.u, Size(o.utterances[i]))
    /\ IsPadded(o.mel_spectrograms[i], e.a, Size(o.mel_spectrograms[i]))
    /\ hp.predict_linear =>
          IsPadded(o.lin_spectrograms[1][i], e.b[1], Size(o.lin_spectrograms[1][i]))
    /\ o.spectrogram_lengths[i] = Size(e.a)
    /\ \A t \in DOMAIN o.stop_tokens[i] : o.stop_tokens[i][t] = 1 => t >= Size(e.a) - 1
    /\ Size(e.a) >= 1 =>
          /\ (Size(e.a) - 1) \in DOMAIN o.stop_tokens[i]
          /\ o.stop_tokens[i][Size(e.a) - 1] = 1
    /\ ~IsNone(o.speakers) => o.speakers[1][i] = e.speaker
    /\ ~IsNone(o.languages) => o.languages[1][i] = e.language

RowsFrom(p) == \A i \in Range0(BatchSize) : RowFrom(i, batch[p[i]])

(* p keeps examples of equal utterance length in their input order *)
KeepsTies(p) ==
    \A i, j \in DOMAIN p :
        (i < j /\ Size(batch[p[i]].u) = Size(batch[p[j]].u)) => p[i] < p[j]

(* C1: the returned utterance lengths are in non-increasing order, and row i
   of the symbol tensor holds an utterance of the batch whose length is the
   i-th returned length. *)
C1_RowsByDescendingLength ==
    CollateDone =>
        LET o == Returned IN
        /\ DOMAIN o.sorted_utterance_lengths = Range0(BatchSize)
        /\ Descending(o.sorted_utterance_lengths)
        /\ \A i \in Range0(BatchSize) :
              \E k \in DOMAIN batch :
                  /\ Size(batch[k].u) = o.sorted_utterance_lengths[i]
                  /\ \A j \in DOMAIN batch[k].u :
                        j \in DOMAIN o.utterances[i] /\ o.utterances[i][j] = batch[k].u[j]

(* C1 witness: a batch given in ascending length order has been collated. *)
C1_Witness ==
    /\ CollateDone
    /\ BatchSize >= 2
    /\ Size(batch[0].u) < Size(batch[1].u)

(* C2: every row of the symbol tensor is the symbol ids of the example placed
   there followed by zeros, and the width is the longest utterance length. *)
C2_SymbolRowsZeroPadded ==
    CollateDone =>
        LET o == Returned IN
        /\ o.shape.utterances = << BatchSize, LongestUtterance >>
        /\ \E p \in Permutations0(BatchSize) :
              \A i \in Range0(BatchSize) :
                  /\ o.sorted_utterance_lengths[i] = Size(batch[p[i]].u)
                  /\ IsPadded(o.utterances[i], batch[p[i]].u, LongestUtterance)

(* C2 witness: a collated batch with a row shorter than the tensor is wide. *)
C2_Witness ==
    /\ CollateDone
    /\ \E i \in Range0(BatchSize) :
          Returned.sorted_utterance_lengths[i] < Size(Returned.utterances[i])

(* C3 (as claimed): in every row the stop target is 0 below index
   frame_count - 1 and 1 from there on, frame_count being the frame count of
   the example in that row. *)
C3_StopTargetFromLastFrame ==
    CollateDone =>
        LET o == Returned IN
        \A i \in Range0(BatchSize) :
            \A t \in DOMAIN o.stop_tokens[i] :
                o.stop_tokens[i][t] = IF t < o.spectrogram_lengths[i] - 1 THEN 0 ELSE 1

(* C4: one permutation of the batch gives every returned row, length entry,
   speaker id and language id; speakers (languages) is None exactly when
   multi_speaker (multi_language) is off. *)
C4_OnePermutation ==
    CollateDone =>
        LET o == Returned IN
        /\ \E p \in Permutations0(BatchSize) : RowsFrom(p)
        /\ IsNone(o.speakers) <=> ~hp.multi_speaker
        /\ IsNone(o.languages) <=> ~hp.multi_language
        /\ IsNone(o.lin_spectrograms) <=> ~hp.predict_linear

(* C4 witness: the sort moved the examples, every optional output is on, and
   the returned frame lengths are not in descending order. *)
C4_Witness ==
    /\ CollateDone
    /\ BatchSize >= 2
    /\ hp.multi_speaker /\ hp.multi_language /\ hp.predict_linear
    /\ Size(batch[0].u) < Size(batch[1].u)
    /\ Returned.spectrogram_lengths[0] < Returned.spectrogram_lengths[1]

(* C5 (as claimed): examples of equal utterance length keep their input
   order in the returned rows. *)
C5_TiesKeepInputOrder ==
    CollateDone => \E p \in Permutations0(BatchSize) : RowsFrom(p) /\ KeepsTies(p)

(* C5 (amended): every example is placed above all strictly shorter ones;
   examples of equal length lie next to each other in either order. *)
C5_TiesInEitherOrder ==
    CollateDone =>
        \E p \in Permutations0(BatchSize) :
            /\ RowsFrom(p)
            /\ \A i, j \in Range0(BatchSize) :
                  Size(batch[p[i]].u) > Size(batch[p[j]].u) => i < j

(* C5 witness: two examples of equal length came out in swapped order. *)
C5_Witness ==
    /\ CollateDone
    /\ \E k, m \in DOMAIN batch : k < m /\ Size(batch[k].u) = Size(batch[m].u)
    /\ ~ \E p \in Permutations0(BatchSize) : RowsFrom(p) /\ KeepsTies(p)

ScenarioCollated ==
    /\ CollateDone
    /\ batch = ScenarioBatch(hp.predict_linear)

(* What the scenario's statement and its amendment share: the shapes and the
   9-symbol example in the first row *)
ScenarioShapes ==
    LET o == Returned IN
    /\ o.shape.utterances = << 2, 9 >>
    /\ o.sorted_utterance_lengths[0] = 9
    /\ IsPadded(o.utterances[0], batch[1].u, 9)
    /\ o.shape.mel_spectrograms = << 2, num_mels, 20 >>
    /\ DOMAIN o.stop_tokens[0] = Range0(20)
    /\ DOMAIN o.stop_tokens[1] = Range0(20)

(* C6 (as claimed): symbol tensor [2, 9] with the 9-symbol example first, mel
   tensor [2, num_mels, 20], and the second stop-target row 1 from index 11. *)
C6_ScenarioSecondRowStops ==
    ScenarioCollated =>
        /\ ScenarioShapes
        /\ \A t \in Range0(20) : Returned.stop_tokens[1][t] = IF t >= 11 THEN 1 ELSE 0

(* C6 (amended): the same shapes; the first stop-target row (the 9-symbol,
   12-frame example) is 1 from index 11, the second row (5 symbols, 20
   frames) is 1 at index 19 only. *)
C6_ScenarioFirstRowStops ==
    ScenarioCollated =>
        /\ ScenarioShapes
        /\ \A t \in Range0(20) : Returned.stop_tokens[0][t] = IF t >= 11 THEN 1 ELSE 0
        /\ \A t \in Range0(20) : Returned.stop_tokens[1][t] = IF t >= 19 THEN 1 ELSE 0

(* C6 witness: the scenario's batch has been collated. *)
C6_Witness == ScenarioCollated /\ Returned.spectrogram_lengths = [i \in Range0(2) |-> IF i = 0 THEN 12 ELSE 20]

(* C7: the time dimension of the mel and stop-target tensors is the largest
   frame count of the batch, and every mel row is its example's frames
   followed by zero frames. *)
C7_FramesPaddedToLongest ==
    CollateDone =>
        LET o == Returned IN
        /\ o.shape.mel_spectrograms = << BatchSize, num_mels, LongestSpectrogram >>
        /\ o.shape.stop_tokens = << BatchSize, LongestSpectrogram >>
        /\ \A i \in Range0(BatchSize) : DOMAIN o.stop_tokens[i] = Range0(LongestSpectrogram)
        /\ \E p \in Permutations0(BatchSize) :
              \A i \in Range0(BatchSize) :
                  /\ o.sorted_utterance_lengths[i] = Size(batch[p[i]].u)
                  /\ o.spectrogram_lengths[i] = Size(batch[p[i]].a)
                  /\ IsPadded(o.mel_spectrograms[i], batch[p[i]].a, LongestSpectrogram)

(* C7 witness: the example with the most frames is not in the first row. *)
C7_Witness ==
    /\ CollateDone
    /\ BatchSize >= 2
    /\ Returned.spectrogram_lengths[0] < LongestSpectrogram
    /\ Returned.spectrogram_lengths[0] >= 1

------------------------------------------------------------------------------
(* Properties of the decode loop *)

DecodeDone == dec.pc = "done"

Result == ret[1]

(* The frames each of the three returned outputs holds *)
ReturnedFrames == Size(Result.spectrogram)

SameFrames(n) ==
    /\ DOMAIN Result.spectrogram = Range0(n)
    /\ DOMAIN Result.stop_tokens = Range0(n)
    /\ DOMAIN Result.alignments = Range0(n)

(* A hit frame: the sigmoid of its stop logit is at least 0.5 *)
IsHit(k) == Result.stop_tokens[k][0] >= 0

Hits == {k \in DOMAIN Result.stop_tokens : IsHit(k)}

FirstHit == CHOOSE k \in Hits : \A m \in Hits : k <= m

(* The frames below 0.5 that follow the first hit frame *)
MissesAfterFirstHit == {k \in DOMAIN Result.stop_tokens : k > FirstHit /\ ~IsHit(k)}

(* The steps executed after the step of the first hit frame *)
AdditionalSteps == dec.steps - (FirstHit + 1)

(* C8: a decode with a target executes exactly target.size(2) steps and
   returns that many frames in each output, whatever the teacher forcing
   ratio and the stop logits. *)
C8_TargetLengthSteps ==
    (DecodeDone /\ ~dec.inference) =>
        LET frames == Size(dec.target[1][0]) - 1 IN
        /\ dec.steps = frames
        /\ SameFrames(frames)

(* C8 witness: a finished decode of a batch of two with a target, whose
   first two stop logits were hits, with a countdown of one frame. *)
C8_Witness ==
    /\ DecodeDone /\ ~dec.inference
    /\ hp.stop_frames = 1
    /\ dec.steps >= 2
    /\ dec.batch_size = 2
    /\ IsHit(0) /\ IsHit(1)
    /\ dec.teacher_forcing_ratio = 100

(* C9 (as claimed), for a grace count of at least one frame: in inference
   at most stop_frames + 1 steps follow the step of the first hit frame,
   unless max_frames comes first. *)
C9_StopsWithinGraceFrames ==
    (DecodeDone /\ dec.inference /\ hp.stop_frames >= 1 /\ Hits # {}) =>
        \/ AdditionalSteps <= hp.stop_frames + 1
        \/ (dec.steps = self_max_frames /\ self_max_frames <= FirstHit + 1 + hp.stop_frames + 1)

(* C9 (amended): with stop_frames >= 1 an inference run that ends before
   max_frames ends on a hit frame, after stop_frames further steps plus one
   step for every frame below 0.5 that followed the first hit; a run never
   goes on for more steps than that, and otherwise it ends at max_frames. *)
C9_StopsAtCountedHit ==
    (DecodeDone /\ dec.inference) =>
        /\ SameFrames(dec.steps)
        /\ dec.steps <= self_max_frames
        /\ dec.steps < self_max_frames =>
              /\ hp.stop_frames >= 1
              /\ Hits # {}
              /\ IsHit(dec.steps - 1)
              /\ AdditionalSteps = hp.stop_frames + Cardinality(MissesAfterFirstHit)
        /\ (hp.stop_frames >= 1 /\ Hits # {}) =>
              AdditionalSteps <= hp.stop_frames + Cardinality(MissesAfterFirstHit)

(* C9 witness: an inference run that ended before max_frames although a
   frame below 0.5 followed the first hit. *)
C9_Witness ==
    /\ DecodeDone /\ dec.inference
    /\ dec.steps < self_max_frames
    /\ Hits # {}
    /\ MissesAfterFirstHit # {}

(* C10: an inference decode never executes more than max_frames steps, a
   started decode returns, and a run in which the countdown did not complete
   (stop_frames <= 0, or at most stop_frames hit frames) returns exactly
   max_frames frames in each output. *)
C10_InferenceTerminates ==
    /\ []((dec.pc \in {"loop", "done"} /\ dec.inference) => dec.steps <= self_max_frames)
    /\ []((DecodeDone /\ dec.inference
             /\ (hp.stop_frames <= 0 \/ Cardinality(Hits) <= hp.stop_frames))
            => (dec.steps = self_max_frames /\ SameFrames(self_max_frames)))
    /\ (dec.pc = "loop" /\ dec.inference) ~> DecodeDone

(* C10 witness: an inference run that met hit frames, fewer than the
   countdown needs, and returned at max_frames. *)
C10_Witness ==
    /\ DecodeDone /\ dec.inference
    /\ hp.stop_frames >= 1
    /\ Hits # {}
    /\ Cardinality(Hits) <= hp.stop_frames
    /\ dec.steps = self_max_frames
    /\ self_max_frames >= 2

(* C11: when a decode ends, early or at the cap, each of the three returned
   outputs has as many slots as loop steps were executed, and slot k holds
   the frame, the stop logits and the attention weights that step k
   produced; no returned slot is the zero the tensors were allocated with. *)
C11_SlotsHoldExecutedSteps ==
    DecodeDone =>
        /\ Len(dec.produced) = dec.steps
        /\ SameFrames(dec.steps)
        /\ \A k \in Range0(dec.steps) :
              /\ Result.stop_tokens[k] = dec.produced[k + 1]
              /\ DOMAIN Result.spectrogram[k] = Range0(dec.batch_size)
              /\ DOMAIN Result.alignments[k] = Range0(dec.batch_size)
              /\ \A b \in Range0(dec.batch_size) :
                    /\ Result.spectrogram[k][b] = PredictedFrame(b, k)
                    /\ \A j \in Range0(dec.max_length) :
                          dec.mask[b][j] => Result.alignments[k][b][j] = PredictedWeights(b, k)

(* C11 witness: an inference decode that ended early, after at least three
   steps and before the cap. *)
C11_Witness ==
    /\ DecodeDone /\ dec.inference
    /\ dec.steps >= 3
    /\ dec.steps < dec.max_frames
    /\ ReturnedFrames = dec.steps

------------------------------------------------------------------------------
(* Properties of Tacotron.forward *)

ForwardDecoded == fwd.pc \in {"decoder", "done"} /\ DecodeDone

ForwardDone == fwd.pc = "done"

ForwardBatchSize == Size(fwd.text_length)

(* The frames of example b that lie beyond its true target length *)
PaddedFrames(b) == {t \in Range0(fwd.target_frames) : t >= fwd.target_length[b]}

(* C12: with an attention that gives no weight to a position its mask marks
   invalid, the mask the decode loop hands to the attention is, at every
   step, the one built from the encoded lengths, and the alignments
   Decoder.forward returns are zero at every input position at or beyond the
   example's encoded length, for every step and every example. *)
C12_NoWeightOnPaddedInput ==
    /\ (fwd.pc = "decoder" /\ dec.pc \in {"loop", "done"}) =>
          /\ DOMAIN dec.mask = Range0(ForwardBatchSize)
          /\ \A b \in Range0(ForwardBatchSize) :
                /\ DOMAIN dec.mask[b] = Range0(fwd.text_length[0])
                /\ \A j \in Range0(fwd.text_length[0]) :
                      dec.mask[b][j] <=> (j < fwd.text_length[b])
    /\ (fwd.pc = "decoder" /\ DecodeDone) =>
          \A k \in DOMAIN Result.alignments :
              \A b \in Range0(ForwardBatchSize) :
                  \A j \in DOMAIN Result.alignments[k][b] :
                      j >= fwd.text_length[b] => Result.alignments[k][b][j] = 0

(* C12 witness: Decoder.forward has returned at least two steps for a batch
   whose second example is shorter than the encoder output is wide, and its
   valid positions carry weight. *)
C12_Witness ==
    /\ fwd.pc = "decoder" /\ DecodeDone
    /\ ForwardBatchSize = 2
    /\ fwd.text_length[1] < fwd.text_length[0]
    /\ dec.steps >= 2
    /\ Result.alignments[1][1][0] # 0

(* C13: in the outputs of Tacotron.forward, at every frame at or beyond the
   example's target length both spectrograms are 0 and the stop logit is the
   forced value; below the target length the values are those of the
   decoder and of the post-net, unchanged. *)
C13_OutputPaddingsMasked ==
    ForwardDone =>
        LET o == fwd.outputs IN
        \A b \in Range0(ForwardBatchSize) :
            /\ DOMAIN o.pre_prediction[b] = Range0(fwd.target_frames)
            /\ DOMAIN o.post_prediction[b] = Range0(fwd.target_frames)
            /\ DOMAIN o.stop_token[b] = Range0(fwd.target_frames)
            /\ \A t \in Range0(fwd.target_frames) :
                  IF t >= fwd.target_length[b]
                  THEN /\ o.pre_prediction[b][t] = 0
                       /\ o.post_prediction[b][t] = 0
                       /\ o.stop_token[b][t] = 1000
                  ELSE /\ o.pre_prediction[b][t] = PredictedFrame(b, t)
                       /\ o.post_prediction[b][t] = 100000 + PredictedFrame(b, t)
                       /\ o.stop_token[b][t] = dec.produced[t + 1][b]

(* C13 witness: a forward call has returned for a batch of two in which one
   example has padded frames and the other has none. *)
C13_Witness ==
    /\ ForwardDone
    /\ ForwardBatchSize = 2
    /\ fwd.target_frames >= 2
    /\ PaddedFrames(0) # {}
    /\ fwd.target_length[0] >= 1
    /\ PaddedFrames(1) = {}

(* C14 (as claimed): in the outputs of Tacotron.forward the alignment rows of
   the frames at or beyond the example's target length are zero. *)
C14_AlignmentPaddingsMasked ==
    ForwardDone =>
        \A b \in Range0(ForwardBatchSize) :
            \A t \in PaddedFrames(b) :
                \A j \in DOMAIN fwd.outputs.alignment[b][t] :
                    fwd.outputs.alignment[b][t][j] = 0

(* C14 (amended): the alignment output is the alignment the decoder
   returned, row for row: the row of every frame, padded or not, holds the
   weights the attention gave at that step, and only the spectrograms and
   the stop logits are masked with the target lengths. *)
C14_AlignmentReturnedUnmasked ==
    ForwardDone =>
        \A b \in Range0(ForwardBatchSize) :
            /\ DOMAIN fwd.outputs.alignment[b] = Range0(fwd.target_frames)
            /\ \A t \in Range0(fwd.target_frames) :
                  /\ DOMAIN fwd.outputs.alignment[b][t] = Range0(fwd.text_length[0])
                  /\ \A j \in Range0(fwd.text_length[0]) :
                        fwd.outputs.alignment[b][t][j] =
                            IF j < fwd.text_length[b] THEN PredictedWeights(b, t) ELSE 0
                  /\ t \in PaddedFrames(b) =>
                        /\ fwd.outputs.pre_prediction[b][t] = 0
                        /\ fwd.outputs.stop_token[b][t] = StopFill

(* C14 witness: a forward call has returned an alignment row with weight in
   it for a frame beyond the example's target length. *)
C14_Witness ==
    /\ ForwardDone
    /\ \E b \in Range0(ForwardBatchSize) :
          \E t \in PaddedFrames(b) : fwd.outputs.alignment[b][t][0] # 0

------------------------------------------------------------------------------
(* Properties of the dataset constructors *)

DatasetCalled == ds.pc = "done" /\ ds.call = "dataset"

DatasetBuilt == DatasetCalled /\ ~IsNone(ds.value)

Built == ds.value[1]

ManifestLines == fs.train[1]

Accepted == {hp.languages[k] : k \in DOMAIN hp.languages}

(* The manifest lines in an accepted language, and the k-th of them *)
KeptLines == {i \in DOMAIN ManifestLines : ManifestLines[i].language \in Accepted}

KeptLine(k) ==
    ManifestLines[CHOOSE i \in KeptLines : Cardinality({j \in KeptLines : j < i}) = k]

KeptSpeakers == {ManifestLines[i].speaker : i \in KeptLines}

SpeakerOf(item) == Built.unique_speakers[item.speaker]

LanguageOf(item) == hp.languages[item.language]

(* C15: the items are the manifest records in an accepted language, in
   manifest order, and no error is raised for the others; a speaker met in
   dropped records only has no id and is not counted by get_num_speakers;
   no item has a language outside the accepted set. *)
C15_ItemsAreAcceptedRecords ==
    (DatasetCalled /\ ~IsNone(fs.train)) =>
        /\ IsNone(ds.raised)
        /\ DatasetBuilt
        /\ DOMAIN Built.items = Range0(Cardinality(KeptLines))
        /\ \A k \in DOMAIN Built.items :
              /\ Built.items[k].speaker \in DOMAIN Built.unique_speakers
              /\ SpeakerOf(Built.items[k]) = KeptLine(k).speaker
              /\ Built.items[k].language \in DOMAIN hp.languages
              /\ LanguageOf(Built.items[k]) = KeptLine(k).language
              /\ LanguageOf(Built.items[k]) \in Accepted
        /\ GetNumSpeakers(Built) = Cardinality(KeptSpeakers)
        /\ {Built.unique_speakers[i] : i \in DOMAIN Built.unique_speakers} = KeptSpeakers
        /\ DOMAIN Built.unique_speakers = Range0(Cardinality(KeptSpeakers))

(* C15 witness: a dataset built from a manifest whose first record is
   dropped and is the only one of its speaker, and whose last is kept. *)
C15_Witness ==
    /\ DatasetBuilt
    /\ Size(ManifestLines) >= 2
    /\ 0 \notin KeptLines
    /\ ManifestLines[0].speaker \notin KeptSpeakers
    /\ (Size(ManifestLines) - 1) \in KeptLines

(* The number of distinct values met in the kept lines before the first
   kept line that has value x in the given field *)
FirstSeenRank(x, Field(_)) ==
    LET first == CHOOSE i \in KeptLines :
                    /\ Field(ManifestLines[i]) = x
                    /\ \A j \in KeptLines : j < i => Field(ManifestLines[j]) # x
    IN  Cardinality({Field(ManifestLines[j]) : j \in {m \in KeptLines : m < first}})

(* C16 (as claimed): the k-th distinct speaker (language) met in the kept
   records, read top to bottom, has id k-1. *)
C16_IdsByFirstOccurrence ==
    DatasetBuilt =>
        \A k \in DOMAIN Built.items :
            /\ Built.items[k].speaker =
                  FirstSeenRank(KeptLine(k).speaker, LAMBDA l : l.speaker)
            /\ Built.items[k].language =
                  FirstSeenRank(KeptLine(k).language, LAMBDA l : l.language)

CollectionCalled == ds.pc = "done" /\ ds.call = "collection"

(* A manifest the call needs is not on disk *)
ManifestMissing ==
    \/ IsNone(fs.train)
    \/ IsNone(fs.val)
    \/ (~IsNone(ds.test_file) /\ IsNone(fs.test))

WasLoaded(name) == \E i \in DOMAIN ds.loaded : ds.loaded[i] = name

(* C17: the collection constructor raises and leaves no object whenever the
   training manifest, the validation manifest or a configured test manifest
   is missing, and otherwise builds the object; with test_file None the
   test manifest is not asked for and not read. *)
C17_MissingManifestIsFatal ==
    CollectionCalled =>
        /\ ManifestMissing => (ds.raised = Some("IOError") /\ IsNone(ds.value))
        /\ ~ManifestMissing =>
              /\ IsNone(ds.raised) /\ ~IsNone(ds.value)
              /\ WasLoaded("train") /\ WasLoaded("val")
              /\ ~IsNone(ds.value[1].dev)
              /\ IsNone(ds.value[1].test) <=> IsNone(ds.test_file)
        /\ IsNone(ds.test_file) => ~WasLoaded("test")
        /\ WasLoaded("test") => ~IsNone(fs.test)

(* C17 witness: the constructor raised because only the validation manifest
   was missing, although a test manifest was configured and present. *)
C17_Witness ==
    /\ CollectionCalled
    /\ ~IsNone(fs.train) /\ Size(fs.train[1]) >= 1
    /\ IsNone(fs.val)
    /\ ~IsNone(ds.test_file) /\ ~IsNone(fs.test)
    /\ ~IsNone(ds.raised)

(* The three cleaning steps in their order, each under its own flag *)
Cleaned(str, punctuation, folding, collapsing) ==
    LET s1 == IF punctuation THEN SelectSeq(str, LAMBDA c : c # ",") ELSE str
        s2 == IF folding THEN [k \in DOMAIN s1 |-> IF s1[k] = "A" THEN "a" ELSE s1[k]] ELSE s1
    IN  IF collapsing THEN RemoveOddWhitespaces(s2) ELSE s2

(* C18 (as claimed): the text and the phonemes of every item went through
   punctuation removal, case folding and whitespace collapsing, in this
   order, each step under its own flag. *)
C18_TextAndPhonemesCleanedAlike ==
    DatasetBuilt =>
        \A k \in DOMAIN Built.items :
            /\ Built.items[k].text =
                  ToSequence(Cleaned(KeptLine(k).text, ~hp.use_punctuation,
                                     ~hp.case_sensitive, hp.remove_multiple_wspaces), FALSE)
            /\ Built.items[k].phonemes =
                  ToSequence(Cleaned(KeptLine(k).phonemes, ~hp.use_punctuation,
                                     ~hp.case_sensitive, hp.remove_multiple_wspaces), TRUE)

(* C18 (amended): the text went through the three steps in this order, each
   under its own flag; the phonemes went through punctuation removal and
   then whitespace collapsing, each under its own flag, and are never
   case-folded. *)
C18_PhonemesKeepCase ==
    DatasetBuilt =>
        \A k \in DOMAIN Built.items :
            /\ Built.items[k].text =
                  ToSequence(Cleaned(KeptLine(k).text, ~hp.use_punctuation,
                                     ~hp.case_sensitive, hp.remove_multiple_wspaces), FALSE)
            /\ Built.items[k].phonemes =
                  ToSequence(Cleaned(KeptLine(k).phonemes, ~hp.use_punctuation,
                                     FALSE, hp.remove_multiple_wspaces), TRUE)

(* C18 witness: with all three steps on, a text whose two spaces meet once
   the comma between them is removed, and phonemes with an upper-case
   symbol, have been cleaned. *)
C18_Witness ==
    /\ DatasetBuilt
    /\ ~hp.use_punctuation /\ ~hp.case_sensitive /\ hp.remove_multiple_wspaces
    /\ ManifestLines[0].text = << " ", ",", " " >>
    /\ ManifestLines[0].phonemes = << "A", ",", "A" >>
    /\ Built.items[0].phonemes = [j \in Range0(2) |-> 4]
    /\ Built.items[0].text = [j \in Range0(1) |-> 6]

------------------------------------------------------------------------------
(* Properties of load_spectrogram *)

LoadDone == load.pc = "done"

ExpectedBins == IF load.is_mel THEN 80 ELSE 552

(* C19: load_spectrogram returns only arrays whose first dimension is the
   expected one; on a mismatch it raises an assertion error before it
   normalizes, on the cached and on the computed path alike, and the array
   it returns has the shape of the array it read or computed. *)
C19_MismatchIsFatal ==
    LoadDone =>
        /\ load.spectrogram.origin =
              (IF hp.cache_spectrograms THEN "np.load" ELSE "audio.spectrogram")
        /\ IF load.spectrogram.shape[1] # ExpectedBins
           THEN /\ load.raised = Some("AssertionError")
                /\ IsNone(load.value)
                /\ ~load.normalize_called
           ELSE /\ IsNone(load.raised)
                /\ ~IsNone(load.value)
                /\ load.value[1].shape = load.spectrogram.shape
                /\ load.value[1].origin = load.spectrogram.origin
                /\ load.value[1].normalized <=> load.normalize
        /\ ~IsNone(load.value) => load.value[1].shape[1] = ExpectedBins

(* C19 witness: a computed linear spectrogram with one bin too many was
   refused although normalization was asked for. *)
C19_Witness ==
    /\ LoadDone
    /\ ~hp.cache_spectrograms
    /\ ~load.is_mel /\ load.normalize
    /\ load.spectrogram.shape[1] = 553
    /\ load.raised = Some("AssertionError")

------------------------------------------------------------------------------
(* Properties of the gradient reversal layer *)

(* -lambda * clamp(g, -c, c), case by case *)
ReversedGradient(g, lambda, c) ==
    IF g > c THEN 0 - (lambda * c)
    ELSE IF g < 0 - c THEN lambda * c
    ELSE 0 - (lambda * g)

(* C20: forward returns its input unchanged; backward returns, for every
   component g of the incoming gradient, -lambda * clamp(g, -c, c), the
   clamp applied before the negation and the scaling, and no gradient for
   lambda and c. *)
C20_GradientReversedAfterClamp ==
    /\ grl.pc \in {"forward", "backward"} =>
          /\ grl.output = grl.x
          /\ grl.ctx = [l |-> grl.lambda, c |-> grl.clipping]
    /\ grl.pc = "backward" =>
          /\ Len(grl.grads) = 3
          /\ DOMAIN grl.grads[1] = DOMAIN grl.grad_output
          /\ \A k \in DOMAIN grl.grad_output :
                grl.grads[1][k] = ReversedGradient(grl.grad_output[k], grl.lambda, grl.clipping)
          /\ IsNone(grl.grads[2])
          /\ IsNone(grl.grads[3])

(* C20 witness: a backward pass with a scale factor of 2 in which one
   component was clamped and another, of the opposite sign, was not. *)
C20_Witness ==
    /\ grl.pc = "backward"
    /\ grl.lambda = 2 /\ grl.clipping = 1
    /\ grl.grad_output[0] = 2 /\ grl.grads[1][0] = -2
    /\ grl.grad_output[1] = -1 /\ grl.grads[1][1] = 2

------------------------------------------------------------------------------
(* Properties of teacher forcing and of the state a decode starts from *)

(* The pre-net output of the decoder's own frame of step i - 1, and of the
   ground-truth frame i - 1; before step 0 both are the zero frame. *)
OwnPrevious(i) ==
    [b \in Range0(dec.batch_size) |-> Prenet(IF i = 0 THEN 0 ELSE PredictedFrame(b, i - 1))]

TruePrevious(i) ==
    [b \in Range0(dec.batch_size) |-> Prenet(IF i = 0 THEN 0 ELSE TargetFrame(b, i - 1))]

(* C21: in a decode with a target the teacher vector has one draw per frame
   index and does not change while the loop runs; step i feeds every
   example the ground-truth previous frame if draw i is set and every
   example its own previous prediction otherwise; with ratio 0 no draw is
   set; in inference every step feeds the pre-net output of the own
   previous prediction. *)
C21_OneDrawPerFrameIndex ==
    [][(dec.pc = "loop" /\ dec'.pc \in {"loop", "done"}) =>
          /\ dec'.teacher = dec.teacher
          /\ ~dec.inference =>
                /\ DOMAIN dec.teacher[1] = Range0(dec.max_frames)
                /\ dec.teacher_forcing_ratio = 0 =>
                      \A i \in Range0(dec.max_frames) : ~dec.teacher[1][i]
          /\ dec'.steps = dec.steps + 1 =>
                dec'.prev_frame[1] =
                    IF ~dec.inference /\ dec.teacher[1][dec.i]
                    THEN TruePrevious(dec.i) ELSE OwnPrevious(dec.i)]_vars

(* C21 witness: a decode of a batch of two with a target whose step 1 was
   not teacher-forced and whose step 2 was: both examples were fed their
   ground-truth frame 1. *)
C21_Witness ==
    /\ DecodeDone /\ ~dec.inference
    /\ dec.batch_size = 2
    /\ dec.steps = 3
    /\ ~dec.teacher[1][1] /\ dec.teacher[1][2]
    /\ \A b \in Range0(2) : dec.prev_frame[1][b] = Prenet(TargetFrame(b, 1))

(* The steps executed so far that gave a hit frame, in step order *)
HitSteps == {k \in Range0(dec.steps) : dec.produced[k + 1][0] >= 0}

(* The index of the n-th hit frame, n >= 1 *)
NthHit(n) == CHOOSE k \in HitSteps : Cardinality({m \in HitSteps : m < k}) = n - 1

(* C25: in inference, with hp.stop_frames = N >= 1 the countdown is unset
   before the first hit frame and N minus the number of later hit frames
   after it, whatever frames below 0.5 lie between, and the decode returns
   at the (N+1)-th hit frame, at index j, with j + 1 frames, or with
   max_frames frames if there is no such frame; with N <= 0 the test of the
   countdown against zero never succeeds and the decode returns exactly
   max_frames frames. *)
C25_ReturnsAtCountedHit ==
    (dec.pc \in {"loop", "done"} /\ dec.inference) =>
        LET N == hp.stop_frames IN
        /\ N >= 1 =>
              /\ dec.stop_frames =
                    IF HitSteps = {} THEN -1 ELSE N - (Cardinality(HitSteps) - 1)
              /\ Cardinality(HitSteps) <= N + 1
              /\ (DecodeDone /\ Cardinality(HitSteps) = N + 1) =>
                    /\ dec.steps = NthHit(N + 1) + 1
                    /\ SameFrames(NthHit(N + 1) + 1)
              /\ (DecodeDone /\ Cardinality(HitSteps) <= N) =>
                    /\ dec.steps = self_max_frames
                    /\ SameFrames(self_max_frames)
              /\ (dec.pc = "loop") => Cardinality(HitSteps) <= N
        /\ (N <= 0 /\ DecodeDone) =>
              /\ dec.steps = self_max_frames
              /\ SameFrames(self_max_frames)

(* C25 witness: with a countdown of 2 an inference decode returned at its
   third hit frame, index 3, with 4 of at most 5 frames; the frame at index
   1 was below 0.5. *)
C25_Witness ==
    /\ DecodeDone /\ dec.inference
    /\ hp.stop_frames = 2
    /\ self_max_frames = 5
    /\ HitSteps = {0, 2, 3}
    /\ ReturnedFrames = 4

(* C26: in a decode with a target, after a teacher-forced step i every
   example was fed the pre-net transform of its ground-truth frame i - 1,
   and of the zero frame at step 0; never of the ground-truth frame i, and
   never of the last target frame. *)
C26_TeacherFeedsPreviousTruth ==
    (dec.pc \in {"loop", "done"} /\ ~dec.inference /\ dec.steps >= 1
        /\ dec.teacher[1][dec.steps - 1]) =>
        LET i == dec.steps - 1 IN
        \A b \in Range0(dec.batch_size) :
            /\ i = 0 => dec.prev_frame[1][b] = Prenet(0)
            /\ i >= 1 => dec.prev_frame[1][b] = Prenet(TargetFrame(b, i - 1))
            /\ dec.prev_frame[1][b] # Prenet(TargetFrame(b, i))
            /\ dec.prev_frame[1][b] # Prenet(TargetFrame(b, dec.max_frames - 1))

(* C26 witness: a decode of a batch of two over three target frames, every
   step teacher-forced, has run its last step. *)
C26_Witness ==
    /\ DecodeDone /\ ~dec.inference
    /\ dec.batch_size = 2
    /\ dec.teacher_forcing_ratio = 100
    /\ dec.steps = 3
    /\ \A i \in Range0(3) : dec.teacher[1][i]
    /\ dec.prev_frame[1][1] = Prenet(TargetFrame(1, 1))

(* The decode loop is about to run its first step *)
DecodeEntered == dec.pc = "loop" /\ dec.steps = 0

(* C22: whatever calls came before, a decode enters its loop with the hidden
   and cell state of both RNNs zero, the current frame zero, the stop
   countdown unset, the output tensors zero and the accumulator of the
   attention module zero as its reset left it. *)
C22_DecodeStartsFresh ==
    DecodeEntered =>
        /\ dec.i = 0
        /\ dec.h_att = Zeros(dec.batch_size) /\ dec.c_att = Zeros(dec.batch_size)
        /\ dec.h_gen = Zeros(dec.batch_size) /\ dec.c_gen = Zeros(dec.batch_size)
        /\ dec.frame = Zeros(dec.batch_size)
        /\ dec.stop_frames = -1
        /\ IsNone(dec.prev_frame)
        /\ dec.produced = << >>
        /\ \A k \in Range0(dec.max_frames) :
              /\ dec.spectrogram[k] = Zeros(dec.batch_size)
              /\ dec.stop_tokens[k] = Zeros(dec.batch_size)
              /\ \A b \in Range0(dec.batch_size) : dec.alignments[k][b] = Zeros(dec.max_length)
        /\ ~IsNone(att.accumulator)
        /\ ~Accumulated(att.accumulator)
        /\ DOMAIN att.accumulator[1] = Range0(dec.batch_size)

(* C22 witness: an inference decode is at its first step on a decoder whose
   attention module held the accumulator of an earlier decode when it was
   reset. *)
C22_Witness ==
    /\ DecodeEntered
    /\ dec.inference
    /\ att.overwrote = Some(TRUE)

------------------------------------------------------------------------------
(* Properties of the reading of the meta-file *)

ManifestText == fs.train[1]

(* The lines of the meta-file, each with its newline if it has one *)
TextFileLines == FileLines(ManifestText, << >>, << >>)

(* A line with nothing but its trailing newline removed *)
WithoutNewline(line) ==
    IF line # << >> /\ line[Len(line)] = Newline
    THEN SubSeq(line, 1, Len(line) - 1) ELSE line

DelimiterPositions(str) == {i \in 1 .. Len(str) : str[i] = Delimiter}

(* The number of '|'-delimited fields of a record *)
FieldCount(line) == Cardinality(DelimiterPositions(WithoutNewline(line))) + 1

(* The characters of a record after its n-th delimiter *)
AfterDelimiter(line, n) ==
    LET str == WithoutNewline(line)
        p == CHOOSE i \in DelimiterPositions(str) :
                Cardinality({j \in DelimiterPositions(str) : j < i}) = n - 1
    IN  SubSeq(str, p + 1, Len(str))

(* C23 (as claimed): when every line of the meta-file has 8 fields, the
   last line with or without a trailing newline, the file is read without
   error and the phonemized text of every item is the characters after
   the seventh delimiter of its line, with nothing but the newline
   removed. *)
C23_OnlyNewlineTrimmed ==
    (DatasetCalled /\ \A k \in DOMAIN TextFileLines : FieldCount(TextFileLines[k]) = 8) =>
        /\ IsNone(ds.raised)
        /\ \A idx \in DOMAIN ds.read :
              ds.read[idx].phonemes = AfterDelimiter(TextFileLines[ds.read[idx].line], 7)

(* C24 (as claimed): every item of a constructed dataset comes from a line
   of exactly 8 fields. *)
C24_ItemsFromEightFields ==
    DatasetBuilt =>
        /\ Size(Built.items) = Size(ds.read)
        /\ \A idx \in DOMAIN ds.read : FieldCount(TextFileLines[ds.read[idx].line]) = 8

------------------------------------------------------------------------------
(* Properties of ModelParallelTacotron.forward *)

ParallelDone == mp.pc = "done"

ParallelBatchSize == Size(mp.batch[0][1])

SplitSize == hp.modelparallel_split_size

(* The number of chunks of at most SplitSize rows that hold the batch *)
NumChunks ==
    CHOOSE n \in 1 .. ParallelBatchSize :
        n * SplitSize >= ParallelBatchSize /\ (n - 1) * SplitSize < ParallelBatchSize

(* The rows of chunk c, in batch order *)
ChunkRows(c) ==
    [k \in Range0(Min2(SplitSize, ParallelBatchSize - c * SplitSize)) |-> c * SplitSize + k]

(* The splits of chunk c: None for an input that is None *)
ChunkSplits(c) ==
    [x \in Range0(6) |-> IF IsNone(mp.batch[x]) THEN None ELSE Some(ChunkRows(c))]

(* C27: for every batch size B >= 1 and split size s the call returns
   without error after ceil(B/s) encoder calls and as many decoder calls;
   call c of either works on the c-th run of s consecutive rows of every
   input that is not None, the decoder with the encoding of that same
   chunk; each of the four outputs has B rows, row r computed from row r of
   the encoding and of every input. *)
C27_ChunksPipelinedInOrder ==
    ParallelDone =>
        /\ IsNone(mp.raised)
        /\ Len(mp.encoder_calls) = NumChunks
        /\ Len(mp.decoder_calls) = NumChunks
        /\ \A c \in 1 .. NumChunks :
              /\ mp.encoder_calls[c] = ChunkSplits(c - 1)
              /\ mp.decoder_calls[c].splits = ChunkSplits(c - 1)
              /\ DOMAIN mp.decoder_calls[c].encoded = DOMAIN ChunkRows(c - 1)
              /\ \A k \in DOMAIN ChunkRows(c - 1) :
                    mp.decoder_calls[c].encoded[k].text = ChunkRows(c - 1)[k]
        /\ \A output \in DOMAIN mp.value[1] :
              /\ DOMAIN mp.value[1][output] = Range0(ParallelBatchSize)
              /\ \A r \in Range0(ParallelBatchSize) :
                    LET row == mp.value[1][output][r] IN
                    /\ row.encoded.text = r
                    /\ row.encoded.text_length = r
                    /\ row.encoded_length = r
                    /\ row.target = r
                    /\ row.target_length = r
                    /\ row.speaker = IF IsNone(mp.batch[4]) THEN None ELSE Some(r)
                    /\ row.language = IF IsNone(mp.batch[5]) THEN None ELSE Some(r)
                    /\ row.encoded.language = row.language

(* C27 witness: a batch of 5 rows without speakers has been through a model
   with split size 2, in three chunks, the last of one row. *)
C27_Witness ==
    /\ ParallelDone
    /\ ParallelBatchSize = 5
    /\ SplitSize = 2
    /\ IsNone(mp.batch[4])
    /\ Len(mp.decoder_calls) = 3
    /\ Size(mp.value[1].alignment) = 5

------------------------------------------------------------------------------
(* Properties of the checkpoints *)

(* The script has been through load_checkpoint *)
CheckpointLoaded == ckpt.pc \in {"resumed", "aborted"}

(* C28 (as claimed): load_checkpoint on a file written by save_checkpoint
   raises nothing, leaves the model, the optimizer and the scheduler in the
   states that were saved and returns the saved epoch; training goes on at
   the saved epoch + 1. *)
C28_CheckpointRoundTrip ==
    CheckpointLoaded =>
        LET saved == ckpt.file[1] IN
        /\ IsNone(ckpt.raised)
        /\ ckpt.model = saved.model.state
        /\ ckpt.optimizer = saved.optimizer.state
        /\ ckpt.scheduler = saved.scheduler.state
        /\ ckpt.returned = Some(saved.epoch)
        /\ ckpt.epoch = saved.epoch + 1

------------------------------------------------------------------------------
(* Properties of TacotronLoss *)

RECURSIVE Power(_, _)
Power(x, n) == IF n = 0 THEN 1 ELSE x * Power(x, n - 1)

(* C29: after n update_states calls on a TacotronLoss created with
   guided_att_steps = K >= 0 the counter is max(0, K - n), never negative,
   and the band width is the initial one times gamma to the n, also for
   n > K; where the guided attention loss is switched on, a forward
   computes the term while the counter is positive and gives exactly 0
   from the K-th call on. *)
C29_CounterAndBandWidth ==
    loss.pc = "created" =>
        LET K == loss.guided_att_steps
            n == loss.updates
        IN  /\ loss.g_steps = Max2(0, K - n)
            /\ loss.g_steps >= 0
            /\ loss.g = loss.guided_att_variance * Power(loss.gamma, n)
            /\ (hp.guided_attention_loss /\ ~IsNone(loss.term)) =>
                  /\ n < K => loss.term = Some("computed")
                  /\ n >= K => loss.term = Some("0")

(* C29 witness: a loss created with 2 guided steps has been updated 4
   times and then evaluated: the term is 0 and the band width has been
   multiplied 4 times. *)
C29_Witness ==
    /\ loss.pc = "created"
    /\ hp.guided_attention_loss
    /\ loss.guided_att_steps = 2
    /\ loss.updates = 4
    /\ loss.g = loss.guided_att_variance * Power(loss.gamma, 4)
    /\ loss.term = Some("0")

====
